---- MODULE Spec2Model ----
(***************************************************************************)
(* Verification model of score.init:                                       *)
(*   - DependencySolver            (score/init/dependency.py)              *)
(*   - module initialisation order (score/init/initializer.py)             *)
(*   - configuration diff patches  (score/init/config/parser.py)           *)
(* Each part has its own specification over the shared variable list; the  *)
(* variables of the other parts stay at their resting value.               *)
(***************************************************************************)
EXTENDS Integers, Sequences, FiniteSets, TLC

VARIABLES
    \* ---- DependencySolver --------------------------------------------
    skeys,        \* keys of self._dependencies, in dict insertion order
    sdeps,        \* self._dependencies[k], the set object of every key
    registered,   \* history: edges asked for through add/remove_dependency
    pc,           \* how the last solve() call ended, "idle" before any
    sorted_,      \* the list the last solve() call returned
    loop,         \* the loop of the DependencyLoop the last solve() raised
    nSolves,      \* number of solve() calls made so far
    \* ---- _apply_diff --------------------------------------------------
    original,     \* parse_list(original): the lines of the base value
    diff_lines,   \* the parsed lines of the diff, each [mark, text]
    lines,        \* local list lines
    anchor,       \* local anchor, a 0-based list index as in the code
    di,           \* number of the diff line the for loop handles next
    dstate,       \* "off", "run", "done" (returned) or "error" (raised)
    hist,         \* history: hist[k] is lines before diff line k is handled
    \* ---- initializer: _sort_modules, _init ---------------------------
    dependency_aliases, \* dependency_aliases[alias][dep]: redirect, or None
    dependency_map,     \* [keys, deps]: the dict dependency_map
    ipc,                \* position inside _sort_modules / _init, "off" at rest
    sorted_aliases,     \* the list _sort_modules returned
    exc,                \* the exception that ended the call, type "none" if none
    modules,            \* modules[alias]: the module name, None when no key
    parameters,         \* parameters[alias][name]: "required", "optional" or "no"
    initialized,        \* the keys of the dict initialized
    init_calls,         \* history: the init() calls made, with kwargs and result
    finalize_parameters, \* parameters of the _finalize of initialized[alias]
    fin_dependency_map, \* the dependency_map local to _finalize
    fin_sorted_aliases, \* the sorted_aliases local to _finalize
    finalized,          \* history: the aliases whose _finalize has been called
    score,              \* "none", or "built" once ConfiguredScore(...) exists
    \* ---- _apply_replace ------------------------------------------------
    rep_original,       \* parameter original, a string as list of characters
    definition,         \* the stripped definition, as its list of <replace> elements
    start,              \* local start, a character offset into the definition text
    replaced,           \* local replaced
    rstate,             \* "off", "run", "done" (returned) or "error" (raised)
    applied,            \* history: the numbers of the elements applied so far
    \* ---- _apply_adjustments ---------------------------------------------
    settings,           \* the document that is adjusted
    adjustments,        \* the document whose values are the adjustments
    todo,               \* the (section, key) pairs the loops have yet to reach
    warned,             \* history: the pairs warnings.warn was called for
    adjusted,           \* history: the pairs _apply_adjustment has returned for
    astate,             \* "off", "run", "done" (returned) or "error" (raised)
    \* _merge_settings
    others,             \* the documents given to _merge_settings, in order
    result,             \* the document it builds
    mindex,             \* the number of documents merged so far
    mstate,             \* "off", "run" or "done" (returned)
    \* parse
    fs,                 \* the files on disk: absolute path -> document
    pfile,              \* the file given to parse
    precurse,           \* the recurse argument of parse
    stack,              \* the active calls of _parse, the innermost last
    visited,            \* the visited list all of them share
    presult,            \* the document parse returned
    pstate,             \* "off", "call", "run", "done" (returned),
                        \* "loop_error", "config_error" (ConfigurationError
                        \* raised) or "recursion_error" (RecursionError)
    \* two parse calls at a time
    calls,              \* calls[i]: the locals of call i, [file, recurse,
                        \* stack, visited, result, state]
    overlapped          \* history: a call made a step while the other was
                        \* inside _parse

solverVars == <<skeys, sdeps, registered, pc, sorted_, loop, nSolves>>

diffVars == <<original, diff_lines, lines, anchor, di, dstate, hist>>

sortVars == <<dependency_aliases, dependency_map, ipc, sorted_aliases, exc>>

initVars == <<modules, parameters, initialized, init_calls, finalize_parameters,
              fin_dependency_map, fin_sorted_aliases, finalized, score>>

replaceVars == <<rep_original, definition, start, replaced, rstate, applied>>

adjustVars == <<settings, adjustments, todo, warned, adjusted, astate>>

mergeVars == <<others, result, mindex, mstate>>

parseVars == <<fs, pfile, precurse, stack, visited, presult, pstate>>

callsVars == <<calls, overlapped>>

vars == <<solverVars, diffVars, sortVars, initVars, replaceVars, adjustVars, mergeVars, parseVars, callsVars>>

-----------------------------------------------------------------------------
(* Generic helpers *)

Range(s) == {s[i] : i \in 1..Len(s)}

\* every ordering of a finite set, as sequences without repetition
RECURSIVE Perms(_)
Perms(S) == IF S = {} THEN {<<>>} ELSE UNION {{<<x>> \o s : s \in Perms(S \ {x})} : x \in S}

\* s without its element at position i
RemoveAt(s, i) == [k \in 1..(Len(s) - 1) |-> IF k < i THEN s[k] ELSE s[k + 1]]

\* s with x inserted so that it ends up at position i (1-based)
InsertAt(s, i, x) == [k \in 1..(Len(s) + 1) |-> IF k < i THEN s[k] ELSE IF k = i THEN x ELSE s[k - 1]]

\* first position of x in s, 0 when absent (list.index raises ValueError then)
IndexOf(s, x) == IF \E i \in 1..Len(s) : s[i] = x THEN CHOOSE i \in 1..Len(s) : s[i] = x /\ \A j \in 1..(i - 1) : s[j] # x ELSE 0

\* s without every element equal to x, order kept
RECURSIVE Without(_, _)
Without(s, x) == IF s = <<>> THEN <<>> ELSE IF s[1] = x THEN Without(Tail(s), x) ELSE <<s[1]>> \o Without(Tail(s), x)

-----------------------------------------------------------------------------
(* DependencySolver *)

Nodes == {"a", "b", "c", "d"}
None == "None"
MaxCalls == 3
MaxSolves == 2

Edges(g) == {e \in Nodes \X Nodes : e[2] \in g[e[1]]}

\* the least number of add_dependency calls that build keys k with edges g
GraphSize(k, g) == Cardinality(Edges(g)) + Cardinality({n \in Range(k) : g[n] = {}})

SolverInit ==
    /\ skeys = <<>>
    /\ sdeps = [n \in Nodes |-> {}]
    /\ registered = [n \in Nodes |-> {}]
    /\ pc = "idle"
    /\ sorted_ = <<>>
    /\ loop = <<>>
    /\ nSolves = 0

add_dependency(from_, to) ==
    /\ skeys' = IF from_ \in Range(skeys) THEN skeys ELSE Append(skeys, from_)
    /\ sdeps' = IF to # None THEN [sdeps EXCEPT ![from_] = @ \cup {to}] ELSE sdeps
    /\ registered' = IF to # None THEN [registered EXCEPT ![from_] = @ \cup {to}] ELSE registered
    /\ GraphSize(skeys', registered') <= MaxCalls
    /\ pc' = "idle"
    /\ sorted_' = <<>>
    /\ loop' = <<>>
    /\ UNCHANGED <<nSolves, diffVars, sortVars, initVars, replaceVars, adjustVars, mergeVars, parseVars, callsVars>>

remove_dependency(from_, to) ==
    /\ from_ \in Range(skeys)
    /\ sdeps' = [sdeps EXCEPT ![from_] = @ \ {to}]
    /\ registered' = [registered EXCEPT ![from_] = @ \ {to}]
    /\ pc' = "idle"
    /\ sorted_' = <<>>
    /\ loop' = <<>>
    /\ UNCHANGED <<nSolves, skeys, diffVars, sortVars, initVars, replaceVars, adjustVars, mergeVars, parseVars, callsVars>>

\* direct_dependencies(node), as the set of its elements
direct_dependencies(node) == IF node \notin Range(skeys) THEN {} ELSE sdeps[node]

\* direct_dependents(node), as the set of its elements
direct_dependents(node) ==
    IF node \notin Range(skeys)
    THEN {}
    ELSE {other \in Range(skeys) : ~(other = node \/ node \notin sdeps[other])}

has_direct_dependency(from_, to) == from_ \in Range(skeys) /\ to \in sdeps[from_]

\* The first loop of solve(), from key number i on: the lists sorted_ it can
\* build. A set is iterated in an order the program does not fix, so the
\* unregistered dependencies of one item may be appended in any order.
RECURSIVE ScanFrom(_, _, _, _)
ScanFrom(keys, deps, i, srt) ==
    IF i > Len(keys)
    THEN {srt}
    ELSE IF deps[keys[i]] = {}
         THEN ScanFrom(keys, deps, i + 1, Append(srt, keys[i]))
         ELSE UNION {ScanFrom(keys, deps, i + 1, srt \o order) : order \in Perms(deps[keys[i]] \ Range(keys))}

\* the keys of the local dict `dependencies` after the first loop
ScanRemaining(keys, deps) == SelectSeq(keys, LAMBDA k : deps[k] # {})

\* One pass "for item in list(dependencies.keys())" from position i of lst on.
\* st = [srt, rem, deps, updated]; the sets in deps are the solver's own sets.
RECURSIVE PassOver(_, _, _)
PassOver(lst, i, st) ==
    IF i > Len(lst)
    THEN st
    ELSE LET item == lst[i]
             deps == st.deps[item]
             to_remove == deps \cap Range(st.srt)
         IN IF to_remove = {}
            THEN PassOver(lst, i + 1, st)
            ELSE IF to_remove = deps
                 THEN PassOver(lst, i + 1, [st EXCEPT !.updated = TRUE, !.srt = Append(@, item), !.rem = Without(@, item)])
                 ELSE PassOver(lst, i + 1, [st EXCEPT !.updated = TRUE, !.deps[item] = @ \ Range(st.srt)])

\* "while updated:" with updated = True before the first pass
RECURSIVE Passes(_)
Passes(st) ==
    LET after == PassOver(st.rem, 1, [st EXCEPT !.updated = FALSE])
    IN IF after.updated THEN Passes(after) ELSE after

\* dependencies[node].pop(): a lookup error when node is no key of the local
\* dict or its set is empty, else any element of the set, which is removed
PopChoices(st, node) == IF node \notin Range(st.rem) THEN {} ELSE st.deps[node]

\* "while loop[-1] not in loop[:-1]: loop.append(dependencies[loop[-1]].pop())"
RECURSIVE WalkFrom(_, _)
WalkFrom(st, lp) ==
    LET node == lp[Len(lp)]
    IN IF Len(lp) >= 2 /\ node \in Range(SubSeq(lp, 1, Len(lp) - 1))
       THEN {[kind |-> "raised", srt |-> st.srt, deps |-> st.deps, loop |-> lp]}
       ELSE IF PopChoices(st, node) = {}
            THEN {[kind |-> "keyerror", srt |-> st.srt, deps |-> st.deps, loop |-> lp]}
            ELSE UNION {WalkFrom([st EXCEPT !.deps[node] = @ \ {d}], Append(lp, d)) : d \in PopChoices(st, node)}

\* what is left of solve() after the passes
Finish(st) ==
    IF st.rem # <<>>
    THEN WalkFrom(st, <<st.rem[1]>>)
    ELSE {[kind |-> "returned", srt |-> st.srt, deps |-> st.deps, loop |-> <<>>]}

\* every way one call of solve() can end on a solver with these keys and sets
SolveOutcomes(keys, deps) ==
    UNION {Finish(Passes([srt |-> s0, rem |-> ScanRemaining(keys, deps), deps |-> deps, updated |-> TRUE])) :
           s0 \in ScanFrom(keys, deps, 1, <<>>)}

solve ==
    /\ nSolves < MaxSolves
    /\ nSolves' = nSolves + 1
    /\ \E out \in SolveOutcomes(skeys, sdeps) :
          /\ pc' = out.kind
          /\ sorted_' = IF out.kind = "returned" THEN out.srt ELSE <<>>
          /\ loop' = out.loop
          /\ sdeps' = out.deps
    /\ UNCHANGED <<skeys, registered, diffVars, sortVars, initVars, replaceVars, adjustVars, mergeVars, parseVars, callsVars>>

-----------------------------------------------------------------------------
(* Properties of DependencySolver *)

\* nodes reachable from n through one or more edges of g
Reach(g, n) ==
    LET step(S) == S \cup UNION {g[m] : m \in S}
    IN step(step(step(step(g[n]))))

HasCycle(g) == \E n \in Nodes : n \in Reach(g, n)

GraphNodes == Range(skeys) \cup UNION {registered[n] : n \in Nodes}

\* C1: whenever solve() returns for an acyclic registered graph, every
\* occurrence of a node in the result comes after every node it directly
\* depends on (each dependency occurs, and only at earlier positions).
C1_SolveOrder ==
    (pc = "returned" /\ ~HasCycle(registered)) =>
        \A i \in 1..Len(sorted_) : \A d \in registered[sorted_[i]] :
            /\ \E j \in 1..(i - 1) : sorted_[j] = d
            /\ \A j \in 1..Len(sorted_) : sorted_[j] = d => j < i

\* C3: solve() raises DependencyLoop exactly when the registered graph has a
\* cycle, returns normally exactly when it has none, and the cycle walk never
\* fails with a lookup error.
C3_LoopIffCycle ==
    /\ pc = "raised" => HasCycle(registered)
    /\ pc = "returned" => ~HasCycle(registered)
    /\ pc # "keyerror"

\* what the caller of solve() sees of an outcome: how the call ended, the
\* list it returned, the loop it reported
Visible(out) == [kind |-> out.kind, srt |-> IF out.kind = "returned" THEN out.srt ELSE <<>>, loop |-> out.loop]

\* C20: a solver that received add_dependency calls only has one outcome of
\* solve(): whatever order its sets are iterated and popped in, the call
\* returns the same list, or reports the same loop.
C20_SolveDeterministic ==
    nSolves = 0 => \A o1, o2 \in SolveOutcomes(skeys, sdeps) : Visible(o1) = Visible(o2)

\* C27: direct_dependents(n) holds exactly the nodes m other than n for
\* which has_direct_dependency(m, n) is true, for every node n, a node that
\* was only ever given as the target of a dependency included.
C27_DependentsMatch ==
    \A n \in Nodes : direct_dependents(n) = {m \in Nodes \ {n} : has_direct_dependency(m, n)}

\* C28: the list solve() returns for an acyclic graph on a solver it has not
\* touched before is a permutation of the nodes of the graph: every key and
\* every node that is only a target occurs in it exactly once.
C28_SolvePermutation ==
    (pc = "returned" /\ nSolves = 1 /\ ~HasCycle(registered)) =>
        /\ Range(sorted_) = GraphNodes
        /\ Len(sorted_) = Cardinality(GraphNodes)

\* C29: a solve() call, returning or raising, changes the answer of neither
\* direct_dependencies(n) nor has_direct_dependency(n, m) for any nodes.
C29_SolveReadOnly ==
    [][nSolves' # nSolves =>
          /\ \A n \in Nodes : direct_dependencies(n)' = direct_dependencies(n)
          /\ \A n, m \in Nodes : has_direct_dependency(n, m)' = has_direct_dependency(n, m)]_vars

\* C4: the loop reported in DependencyLoop starts and ends on the same node,
\* repeats no other node, holds only nodes of the graph, and every consecutive
\* pair is a direct dependency of the graph.
C4_LoopIsCycle ==
    pc = "raised" =>
        /\ Len(loop) >= 2
        /\ loop[1] = loop[Len(loop)]
        /\ \A i, j \in 1..Len(loop) : (i < j /\ loop[i] = loop[j]) => (i = 1 /\ j = Len(loop))
        /\ \A i \in 1..Len(loop) : loop[i] \in GraphNodes
        /\ \A i \in 1..(Len(loop) - 1) : loop[i + 1] \in registered[loop[i]]

-----------------------------------------------------------------------------
(* _apply_diff *)

Texts == {"foo", "bar", "baz"}
MaxBase == 3
MaxDiff == 2

\* The first character of a stripped diff line decides its kind: "-" removal,
\* "+" addition, anything else an anchor (context) line, written "" here.
\* text is the line without that marker (line[1:]), or the whole anchor line.
Marks == {"", "-", "+"}
DiffLine == [mark : Marks, text : Texts]

SeqsUpTo(S, n) == UNION {[1..k -> S] : k \in 0..n}

DiffOff ==
    /\ original = <<>>
    /\ diff_lines = <<>>
    /\ lines = <<>>
    /\ anchor = 0
    /\ di = 0
    /\ dstate = "off"
    /\ hist = <<>>

\* _apply_diff is entered: lines = parse_list(original), anchor = 0
DiffInit ==
    /\ original \in SeqsUpTo(Texts, MaxBase)
    /\ diff_lines \in SeqsUpTo(DiffLine, MaxDiff)
    /\ lines = original
    /\ anchor = 0
    /\ di = 1
    /\ dstate = "run"
    /\ hist = <<>>

DiffRunning == dstate = "run" /\ di <= Len(diff_lines)

\* mutant: the anchor of a context line is the line itself, not the place after it
ContextAnchorOnLine(ls, text) == IndexOf(ls, text) - 1

\* "if line[0] not in '-+': anchor = lines.index(line) + 1"
\* (IndexOf counts from 1, so it is the 0-based index plus one)
ContextAnchor(ls, text) == IndexOf(ls, text)

DiffContext ==
    /\ DiffRunning
    /\ diff_lines[di].mark = ""
    /\ IF IndexOf(lines, diff_lines[di].text) = 0
       THEN /\ dstate' = "error"
            /\ UNCHANGED anchor
       ELSE /\ anchor' = ContextAnchor(lines, diff_lines[di].text)
            /\ UNCHANGED dstate
    /\ di' = di + 1
    /\ hist' = Append(hist, lines)
    /\ UNCHANGED <<original, diff_lines, lines, solverVars, sortVars, initVars, replaceVars, adjustVars, mergeVars, parseVars, callsVars>>

\* mutant: a removal line sets the anchor as a context line does
RemovalAnchorAfter(ls, text) == IndexOf(ls, text)

\* "elif line[0] == '-': anchor = lines.index(line[1:])"
RemovalAnchor(ls, text) == IndexOf(ls, text) - 1

\* "del lines[anchor]"
DelAt(ls, a) == RemoveAt(ls, a + 1)

DiffRemoval ==
    /\ DiffRunning
    /\ diff_lines[di].mark = "-"
    /\ IF IndexOf(lines, diff_lines[di].text) = 0
       THEN /\ dstate' = "error"
            /\ UNCHANGED <<anchor, lines>>
       ELSE /\ anchor' = RemovalAnchor(lines, diff_lines[di].text)
            /\ lines' = DelAt(lines, anchor')
            /\ UNCHANGED dstate
    /\ di' = di + 1
    /\ hist' = Append(hist, lines)
    /\ UNCHANGED <<original, diff_lines, solverVars, sortVars, initVars, replaceVars, adjustVars, mergeVars, parseVars, callsVars>>

\* "lines.insert(anchor, line[1:])": list.insert appends when anchor is
\* past the end
ListInsert(ls, a, x) == IF a >= Len(ls) THEN Append(ls, x) ELSE InsertAt(ls, a + 1, x)

DiffAddition ==
    /\ DiffRunning
    /\ diff_lines[di].mark = "+"
    /\ lines' = ListInsert(lines, anchor, diff_lines[di].text)
    /\ di' = di + 1
    /\ hist' = Append(hist, lines)
    /\ UNCHANGED <<original, diff_lines, anchor, dstate, solverVars, sortVars, initVars, replaceVars, adjustVars, mergeVars, parseVars, callsVars>>

\* "return '\n'.join(lines)"
DiffReturn ==
    /\ dstate = "run"
    /\ di > Len(diff_lines)
    /\ dstate' = "done"
    /\ UNCHANGED <<original, diff_lines, lines, anchor, di, hist, solverVars, sortVars, initVars, replaceVars, adjustVars, mergeVars, parseVars, callsVars>>

DiffNext == DiffContext \/ DiffRemoval \/ DiffAddition \/ DiffReturn

-----------------------------------------------------------------------------
(* Properties of _apply_diff *)

Ctx(t) == [mark |-> "", text |-> t]
Del(t) == [mark |-> "-", text |-> t]
Add(t) == [mark |-> "+", text |-> t]

\* lines after diff line k has been handled
LinesAfter(k) == IF k < Len(hist) THEN hist[k + 1] ELSE lines

\* diff line k has been handled without raising
Handled(k) == k \in 1..Len(hist) /\ ~(k = Len(hist) /\ dstate = "error")

\* C9: an addition line with no context or removal line before it is inserted
\* at index 0 of the lines; an addition line directly preceded by a context
\* line is inserted immediately after the first occurrence of that context
\* line; the three examples of the documentation come out as documented.
C9_InsertionPoint ==
    /\ \A k \in 1..Len(hist) : diff_lines[k].mark = "+" =>
          /\ (\A j \in 1..(k - 1) : diff_lines[j].mark = "+") =>
                LinesAfter(k) = <<diff_lines[k].text>> \o hist[k]
          /\ (k > 1 /\ diff_lines[k - 1].mark = "") =>
                LinesAfter(k) = InsertAt(hist[k], IndexOf(hist[k], diff_lines[k - 1].text) + 1, diff_lines[k].text)
    /\ (dstate = "done" /\ original = <<"foo", "bar">>) =>
          /\ diff_lines = <<Add("baz")>> => lines = <<"baz", "foo", "bar">>
          /\ diff_lines = <<Ctx("bar"), Add("baz")>> => lines = <<"foo", "bar", "baz">>
          /\ diff_lines = <<Ctx("foo"), Add("baz")>> => lines = <<"foo", "baz", "bar">>

C9_Witness ==
    /\ dstate = "done"
    /\ original = <<"foo", "bar">>
    /\ diff_lines = <<Ctx("foo"), Add("baz")>>
    /\ lines = <<"foo", "baz", "bar">>

\* C10: a removal line deletes the first occurrence of its text from the
\* current lines and sets the anchor to the index the line had, so that an
\* addition line that follows directly takes the place of the removed line.
C10_RemovalAnchor ==
    /\ \A k \in 1..Len(hist) : (diff_lines[k].mark = "-" /\ Handled(k)) =>
          LET p == IndexOf(hist[k], diff_lines[k].text)
          IN /\ p >= 1
             /\ LinesAfter(k) = RemoveAt(hist[k], p)
             /\ k = Len(hist) => anchor = p - 1
             /\ (k < Len(hist) /\ diff_lines[k + 1].mark = "+") =>
                   LinesAfter(k + 1) = [hist[k] EXCEPT ![p] = diff_lines[k + 1].text]
    /\ (dstate = "done" /\ original = <<"foo", "bar">> /\ diff_lines = <<Del("bar"), Add("baz")>>) =>
          lines = <<"foo", "baz">>

C10_Witness ==
    /\ dstate = "done"
    /\ original = <<"bar", "foo", "bar">>
    /\ diff_lines = <<Del("bar"), Add("baz")>>
    /\ lines = <<"baz", "foo", "bar">>

\* C22: an addition line that directly follows another addition line is
\* inserted right behind the line its predecessor inserted, so consecutive
\* additions stand next to each other in the order of the diff; base [foo]
\* with the diff [+bar, +baz] gives [bar, baz, foo].
C22_ConsecutiveAdditions ==
    /\ \A k \in 1..(Len(hist) - 1) : (diff_lines[k].mark = "+" /\ diff_lines[k + 1].mark = "+") =>
          \E q \in 1..(Len(hist[k]) + 1) :
             /\ LinesAfter(k) = InsertAt(hist[k], q, diff_lines[k].text)
             /\ LinesAfter(k + 1) = InsertAt(LinesAfter(k), q + 1, diff_lines[k + 1].text)
    /\ (dstate = "done" /\ original = <<"foo">> /\ diff_lines = <<Add("bar"), Add("baz")>>) =>
          lines = <<"bar", "baz", "foo">>

-----------------------------------------------------------------------------
(* initializer: _sort_modules *)

Aliases == {"a", "b", "c"}
\* every name a dependency can have: an alias, or 'score' during finalization
Names == Aliases \cup {"score"}
MaxDeps == 3
MaxRedirects == 1

NoException == [type |-> "none", loop |-> <<>>]

\* DependencyLoop.__init__(self, loop, *, module='score.init') takes one
\* positional argument; a call with any other number of them raises
\* TypeError before a DependencyLoop exists.
DependencyLoopNew(args) ==
    IF Len(args) = 1
    THEN [type |-> "DependencyLoop", loop |-> args[1]]
    ELSE [type |-> "TypeError", loop |-> <<>>]

NoRedirects == [x \in Names |-> [d \in Names |-> None]]
EmptyMap == [keys |-> {}, deps |-> [x \in Names |-> {}]]

\* the entries of a dependency map, as (alias, dependency) pairs
Entries(dm) == {e \in Names \X Names : e[1] \in dm.keys /\ e[2] \in dm.deps[e[1]]}

\* the redirect entries, as (alias, dependency) pairs
RedirectEntries(al) == {e \in Names \X Names : al[e[1]][e[2]] # None}

NoParameters == [x \in Names |-> [d \in Names |-> "no"]]
NoModules == [x \in Names |-> None]

InitOff ==
    /\ modules = NoModules
    /\ parameters = NoParameters
    /\ initialized = {}
    /\ init_calls = <<>>
    /\ finalize_parameters = NoParameters
    /\ fin_dependency_map = EmptyMap
    /\ fin_sorted_aliases = <<>>
    /\ finalized = <<>>
    /\ score = "none"

SortOff ==
    /\ InitOff
    /\ dependency_aliases = NoRedirects
    /\ dependency_map = EmptyMap
    /\ ipc = "off"
    /\ sorted_aliases = <<>>
    /\ exc = NoException

\* mutant: the redirect of the consuming alias is not applied
TargetUnredirected(al, alias, dep) == dep

\* "try: dep = dependency_aliases[alias][dep] / except KeyError: pass"
Target(al, alias, dep) == IF al[alias][dep] # None THEN al[alias][dep] ELSE dep

\* the edges graph.add_edge puts into the DiGraph: (None, alias) for an alias
\* without dependencies, (redirected dependency, alias) for each dependency
GraphEdges(dm, al) ==
    {<<None, x>> : x \in {k \in dm.keys : dm.deps[k] = {}}}
    \cup {<<Target(al, e[1], e[2]), e[1]>> : e \in Entries(dm)}

GraphNodes2(edges) == {e[1] : e \in edges} \cup {e[2] : e \in edges}

\* nx.simple_cycles(graph): the elementary cycles, each a list of distinct
\* nodes with an edge from each node to the next and from the last to the first
SimpleCycles(edges) ==
    {cyc \in UNION {Perms(S) : S \in SUBSET GraphNodes2(edges) \ {{}}} :
        /\ \A i \in 1..(Len(cyc) - 1) : <<cyc[i], cyc[i + 1]>> \in edges
        /\ <<cyc[Len(cyc)], cyc[1]>> \in edges}

\* nx.topological_sort(graph): an ordering of all nodes with every edge
\* pointing forward
TopologicalSorts(edges) ==
    {o \in Perms(GraphNodes2(edges)) :
        \A e \in edges : IndexOf(o, e[1]) < IndexOf(o, e[2])}

\* KeepPlaceholder: the placeholder stays in the order
KeepPlaceholder(o) == o

\* "if alias is None: continue": the order without the placeholder node
SkipPlaceholder(o) == Without(o, None)

\* every way _sort_modules(dependency_map, dependency_aliases, operation) can
\* end: the exception of the first cycle found, or the sorted aliases
SortOutcomes(dm, al, operation) ==
    LET edges == GraphEdges(dm, al)
    IN IF SimpleCycles(edges) # {}
       THEN {[order |-> <<>>, exc |-> DependencyLoopNew(<<"score.init", operation, cyc>>)] : cyc \in SimpleCycles(edges)}
       ELSE {[order |-> SkipPlaceholder(o), exc |-> NoException] : o \in TopologicalSorts(edges)}

\* the dependency map with these keys and these (alias, dependency) entries
MapOf(keys, E) == [keys |-> keys, deps |-> [x \in Names |-> {e[2] : e \in {f \in E : f[1] = x}}]]

\* the redirects that send each (alias, dependency) entry of DOMAIN r to r[entry]
RedirectsOf(r) == [x \in Names |-> [d \in Names |-> IF <<x, d>> \in DOMAIN r THEN r[<<x, d>>] ELSE None]]

\* the dependency maps of up to MaxDeps entries, and for each the redirects
\* of up to MaxRedirects of its entries (a redirect of a name that is no
\* dependency of the alias is never looked up)
MapInputs == {MapOf(keys, E) : <<keys, E>> \in {ke \in (SUBSET Aliases) \X (SUBSET (Aliases \X Aliases)) :
                 /\ Cardinality(ke[2]) <= MaxDeps
                 /\ {e[1] : e \in ke[2]} \subseteq ke[1]}}

RedirectInputs(E) == {RedirectsOf(r) : r \in UNION {[R -> Aliases] : R \in {Q \in SUBSET E : Cardinality(Q) <= MaxRedirects}}}

\* _sort_modules is called with some dependency map and redirects
SortInit ==
    /\ InitOff
    /\ dependency_map \in MapInputs
    /\ dependency_aliases \in RedirectInputs(Entries(dependency_map))
    /\ ipc = "sortcall"
    /\ sorted_aliases = <<>>
    /\ exc = NoException

SortReturn ==
    /\ ipc = "sortcall"
    /\ \E out \in SortOutcomes(dependency_map, dependency_aliases, "testing") :
          /\ out.exc.type = "none"
          /\ sorted_aliases' = out.order
          /\ ipc' = "returned"
          /\ UNCHANGED exc
    /\ UNCHANGED <<dependency_map, dependency_aliases, solverVars, diffVars, initVars, replaceVars, adjustVars, mergeVars, parseVars, callsVars>>

SortRaise ==
    /\ ipc = "sortcall"
    /\ \E out \in SortOutcomes(dependency_map, dependency_aliases, "testing") :
          /\ out.exc.type # "none"
          /\ exc' = out.exc
          /\ ipc' = "raised"
          /\ UNCHANGED sorted_aliases
    /\ UNCHANGED <<dependency_map, dependency_aliases, solverVars, diffVars, initVars, replaceVars, adjustVars, mergeVars, parseVars, callsVars>>

SortNext == SortReturn \/ SortRaise

-----------------------------------------------------------------------------
(* Properties of _sort_modules *)

\* the concrete alias a dependency name of an alias stands for
Concrete(x, d) == IF dependency_aliases[x][d] # None THEN dependency_aliases[x][d] ELSE d

\* "x depends on t" after redirection, as pairs <<x, t>>
Needs == {<<e[1], Concrete(e[1], e[2])>> : e \in Entries(dependency_map)}

\* the aliases x needs directly or through others
NeedsReach(x) ==
    LET step(S) == S \cup {e[2] : e \in {f \in Needs : f[1] \in S}}
    IN step(step(step(step({e[2] : e \in {f \in Needs : f[1] = x}}))))

NeedsCycle == \E x \in Names : x \in NeedsReach(x)

\* C2: for an acyclic dependency map _sort_modules returns, and in the
\* returned order every alias comes after the concrete alias of each of its
\* dependencies (the redirect of the alias when there is one, else the name).
C2_SortOrder ==
    /\ (ipc \in {"returned", "raised"} /\ ~NeedsCycle) => ipc = "returned"
    /\ ipc = "returned" =>
          \A n \in Needs :
             /\ IndexOf(sorted_aliases, n[1]) >= 1
             /\ IndexOf(sorted_aliases, n[2]) >= 1
             /\ IndexOf(sorted_aliases, n[2]) < IndexOf(sorted_aliases, n[1])

\* a depends on b, redirected to c: c comes first, and b, a module of its
\* own, may come after a
C2_Witness ==
    /\ ipc = "returned"
    /\ "b" \in dependency_map.deps["a"]
    /\ dependency_aliases["a"]["b"] = "c"
    /\ sorted_aliases = <<"c", "a", "b">>

\* every dependency of every alias stands, after redirection, for a key of
\* the dependency map
TargetsAreKeys == \A n \in Needs : n[2] \in dependency_map.keys

\* C19: for an acyclic dependency map whose redirected dependencies are all
\* keys, _sort_modules returns, and the returned list holds every key of the
\* map once and nothing else; the placeholder None is not in it; for the
\* empty map it is the empty list.
C19_SortComplete ==
    /\ (ipc \in {"returned", "raised"} /\ ~NeedsCycle /\ TargetsAreKeys) => ipc = "returned"
    /\ (ipc = "returned" /\ TargetsAreKeys) =>
          /\ Range(sorted_aliases) = dependency_map.keys
          /\ Len(sorted_aliases) = Cardinality(dependency_map.keys)
          /\ None \notin Range(sorted_aliases)
          /\ dependency_map.keys = {} => sorted_aliases = <<>>

\* b has no dependency and hangs on the placeholder, a depends on b, c is
\* redirected to b: the three keys are returned, the placeholder is not
C19_Witness ==
    /\ ipc = "returned"
    /\ TargetsAreKeys
    /\ dependency_map.keys = {"a", "b", "c"}
    /\ dependency_map.deps["b"] = {}
    /\ dependency_map.deps["a"] = {"b"}
    /\ dependency_aliases["c"]["a"] = "b"
    /\ Len(sorted_aliases) = 3
    /\ sorted_aliases[1] = "b"

\* C5: when the dependency map has a cycle, _sort_modules raises
\* DependencyLoop, whose loop holds exactly the aliases of one cycle.
C5_CycleRaisesDependencyLoop ==
    (ipc \in {"returned", "raised"} /\ NeedsCycle) =>
        /\ ipc = "raised"
        /\ exc.type = "DependencyLoop"
        /\ exc.loop # <<>>
        /\ \A x \in Range(exc.loop) : Range(exc.loop) \subseteq NeedsReach(x)

-----------------------------------------------------------------------------
(* initializer: _remove_missing_optional_dependencies *)

ConfigurationError == [type |-> "ConfigurationError", loop |-> <<>>]
InitializationError == [type |-> "InitializationError", loop |-> <<>>]
KeyError == [type |-> "KeyError", loop |-> <<>>]
ValueError == [type |-> "ValueError", loop |-> <<>>]

\* the keys of the dict modules
ModuleKeys(m) == {x \in Names : m[x] # None}

\* mutant: the redirect of the consuming alias is not looked up
NoDependencyAlias(al, alias, dependency) == dependency

\* "try: dependency_alias = dependency_aliases[alias][dependency] /
\*  except KeyError: dependency_alias = dependency"
DependencyAlias(al, alias, dependency) ==
    IF al[alias][dependency] # None THEN al[alias][dependency] ELSE dependency

\* mutant: every dependency counts as present
AlwaysPresent(mods, dependency_alias) == TRUE

\* "if dependency_alias in modules"
Present(mods, dependency_alias) == dependency_alias \in mods

\* the list newdeps built for one alias
NewDeps(mods, pars, al, alias) ==
    {d \in Names : pars[alias][d] # "no" /\ Present(mods, DependencyAlias(al, alias, d))}

\* the keys of the dict missing
Missing(mods, keys, pars, al) ==
    {d \in Names : \E alias \in keys :
        /\ pars[alias][d] = "required"
        /\ ~Present(mods, DependencyAlias(al, alias, d))}

\* _remove_missing_optional_dependencies(modules, dependency_map,
\* dependency_aliases) for a dependency_map with these keys whose lists hold
\* the (name, is_optional) pairs of pars: the dependency_map it leaves behind
\* (every list is replaced before the function raises) and its exception
RemoveMissing(mods, keys, pars, al) ==
    [map |-> [keys |-> keys,
              deps |-> [x \in Names |-> IF x \in keys THEN NewDeps(mods, pars, al, x) ELSE {}]],
     exc |-> IF Missing(mods, keys, pars, al) = {} THEN NoException ELSE ConfigurationError]

\* the (alias, name) pairs with a parameter
Declared(pars) == {e \in Names \X Names : pars[e[1]][e[2]] # "no"}

\* the parameters that give each pair of DOMAIN f the kind f[pair]
ParametersOf(f) == [x \in Names |-> [d \in Names |-> IF <<x, d>> \in DOMAIN f THEN f[<<x, d>>] ELSE "no"]]

\* the parameter tables with up to n parameters, of aliases in keys, named
\* by names
ParameterInputs(keys, names, n) ==
    {ParametersOf(f) : f \in UNION {[E -> {"required", "optional"}] :
        E \in {Q \in SUBSET (keys \X names) : Cardinality(Q) <= n}}}

\* the module dicts over these aliases with these module names
ModuleInputs(aliases, modnames) ==
    {[x \in Names |-> IF x \in aliases THEN m[x] ELSE None] : m \in [aliases -> modnames \cup {None}]}

\* the dependency_map as handed to the function: all declared names
Unpruned(keys, pars) == [keys |-> keys, deps |-> [x \in Names |-> {d \in Names : x \in keys /\ pars[x][d] # "no"}]]

\* _remove_missing_optional_dependencies is called with some module dict, a
\* dependency map over some of its aliases and some redirects
PruneInit ==
    /\ modules \in ModuleInputs(Aliases, {"pkg"})
    /\ \E keys \in SUBSET ModuleKeys(modules) :
          /\ parameters \in ParameterInputs(keys, Aliases, MaxDeps)
          /\ dependency_map = Unpruned(keys, parameters)
    /\ dependency_aliases \in RedirectInputs(Declared(parameters))
    /\ ipc = "prunecall"
    /\ sorted_aliases = <<>>
    /\ exc = NoException
    /\ initialized = {}
    /\ init_calls = <<>>
    /\ finalize_parameters = NoParameters
    /\ fin_dependency_map = EmptyMap
    /\ fin_sorted_aliases = <<>>
    /\ finalized = <<>>
    /\ score = "none"

PruneCall ==
    /\ ipc = "prunecall"
    /\ LET out == RemoveMissing(ModuleKeys(modules), dependency_map.keys, parameters, dependency_aliases)
       IN /\ dependency_map' = out.map
          /\ exc' = out.exc
          /\ ipc' = IF out.exc.type = "none" THEN "returned" ELSE "raised"
    /\ UNCHANGED <<dependency_aliases, sorted_aliases, solverVars, diffVars, initVars, replaceVars, adjustVars, mergeVars, parseVars, callsVars>>

PruneNext == PruneCall

-----------------------------------------------------------------------------
(* Properties of _remove_missing_optional_dependencies *)

\* some required dependency of a key has a concrete alias outside modules
AbsentRequired ==
    \E x \in dependency_map.keys, d \in Names :
        parameters[x][d] = "required" /\ Concrete(x, d) \notin ModuleKeys(modules)

\* C6: the call raises ConfigurationError when a required dependency has an
\* absent (redirected) target and returns otherwise; when it returns, each
\* list holds exactly the declared dependencies whose target is present, so
\* absent optional ones are dropped and present ones are all kept.
C6_Pruning ==
    ipc \in {"returned", "raised"} =>
        /\ AbsentRequired => (ipc = "raised" /\ exc.type = "ConfigurationError")
        /\ ~AbsentRequired => ipc = "returned"
        /\ ipc = "returned" =>
              \A x \in dependency_map.keys :
                 dependency_map.deps[x] =
                    {d \in Names : parameters[x][d] # "no" /\ Concrete(x, d) \in ModuleKeys(modules)}

\* a has the optional dependencies b and c; b is a module but redirected to
\* the absent c and is dropped, c is redirected nowhere and absent, too
C6_Witness ==
    /\ ipc = "returned"
    /\ parameters["a"]["b"] = "optional"
    /\ parameters["a"]["a"] = "required"
    /\ dependency_aliases["a"]["b"] = "c"
    /\ modules["b"] # None
    /\ modules["c"] = None
    /\ dependency_map.deps["a"] = {"a"}

\* C24: when _remove_missing_optional_dependencies returns, every name left
\* in a list of dependency_map stands, after the redirect of its alias, for
\* a key of modules, so every edge _sort_modules builds from the map starts
\* at a module of the module set.
C24_PrunedTargetsExist ==
    ipc = "returned" =>
        /\ \A x \in dependency_map.keys : \A d \in dependency_map.deps[x] :
              Concrete(x, d) \in ModuleKeys(modules)
        /\ \A n \in Needs : n[2] \in ModuleKeys(modules) /\ n[1] \in ModuleKeys(modules)

\* b is no module; a keeps its dependency b, which its redirect turns into
\* the module c, and c loses its optional dependency b
C24_Witness ==
    /\ ipc = "returned"
    /\ modules["b"] = None
    /\ modules["c"] # None
    /\ parameters["a"]["b"] = "required"
    /\ dependency_aliases["a"]["b"] = "c"
    /\ parameters["a"]["a"] = "optional"
    /\ parameters["c"]["b"] = "optional"
    /\ dependency_map.deps["a"] = {"a", "b"}
    /\ dependency_map.deps["c"] = {}

-----------------------------------------------------------------------------
(* initializer: _init, _collect_dependencies, ConfiguredScore._finalize *)

AliasList == <<"a", "b", "c">>
MaxParams == 2

\* what _import(modname) can deliver: a module with a callable init, None,
\* a module without init, a module whose init is not callable
ImportOutcomes == {"module", "missing", "noinit", "notcallable"}

\* every way _collect_dependencies(modules, dependency_aliases) can end, the
\* signature of each imported init being the row of pars
CollectOutcomes(m, pars, al) ==
    LET pkgs == {x \in ModuleKeys(m) : m[x] # "score.init"}
        outcome(imp) ==
            IF \E x \in pkgs : imp[x] \in {"noinit", "notcallable"}
            THEN [map |-> EmptyMap, exc |-> InitializationError]
            ELSE IF \E x \in pkgs : imp[x] = "missing"
            THEN [map |-> EmptyMap, exc |-> ConfigurationError]
            ELSE RemoveMissing(ModuleKeys(m), pkgs, pars, al)
    IN {outcome(imp) : imp \in [pkgs -> ImportOutcomes]}

\* the aliases of a module list: the aliases are interchangeable names, the
\* lists use them in the order a, b, c
ModuleLists == {{AliasList[i] : i \in 1..n} : n \in 0..Len(AliasList)}

\* the finalize dependencies the ConfiguredModule classes of the aliases in
\* keys can declare. "required" and "optional" are the parameters of
\* _finalize without and with a default; a name of a list
\* _finalize_dependencies is "optional" too (lines 221-222); "dictkey" is a
\* key of a dict _finalize_dependencies (lines 218-219), here of one entry.
\* The names declared are b, c and score.
FinalizeInputs(keys) ==
    ParameterInputs(keys, Names \ {"a"}, MaxParams)
        \cup {ParametersOf(f) : f \in UNION {[{e} -> {"dictkey"}] : e \in keys \X (Names \ {"a"})}}

\* the redirects of a module list whose first line can be "a(name=target)";
\* the target of a finalize dependency can be 'score'
FinalizeRedirectInputs(E) ==
    {NoRedirects} \cup {RedirectsOf(r) : r \in UNION {[{e} -> Names] : e \in {f \in E : f[1] = "a"}}}

\* _init is entered with modules whose init functions take the confdict
\* only; the ConfiguredModule classes of a and b declare finalize
\* dependencies, the third module of the list can be score.init itself
FinalizeInitCall ==
    /\ modules \in {m \in ModuleInputs(Aliases, {"pkg", "score.init"}) :
                        /\ ModuleKeys(m) \in ModuleLists
                        /\ \A x \in {"a", "b"} : m[x] # "score.init"}
    /\ parameters = NoParameters
    /\ finalize_parameters \in FinalizeInputs(ModuleKeys(modules) \cap {"a", "b"})
    /\ dependency_aliases \in FinalizeRedirectInputs(Declared(finalize_parameters))
    /\ dependency_map = EmptyMap
    /\ ipc = "collect"
    /\ sorted_aliases = <<>>
    /\ exc = NoException
    /\ initialized = {}
    /\ init_calls = <<>>
    /\ fin_dependency_map = EmptyMap
    /\ fin_sorted_aliases = <<>>
    /\ finalized = <<>>
    /\ score = "none"

\* _init is entered with the modules and redirects _collect_modules parsed:
\* up to three modules, score.init itself possibly among them, whose
\* init functions have up to MaxParams parameters after the confdict
InitCall ==
    /\ modules \in {m \in ModuleInputs(Aliases, {"pkg", "score.init"}) : ModuleKeys(m) \in ModuleLists}
    /\ parameters \in ParameterInputs({x \in ModuleKeys(modules) : modules[x] = "pkg"}, Aliases, MaxParams)
    /\ dependency_aliases \in RedirectInputs(Declared(parameters))
    /\ dependency_map = EmptyMap
    /\ ipc = "collect"
    /\ sorted_aliases = <<>>
    /\ exc = NoException
    /\ initialized = {}
    /\ init_calls = <<>>
    /\ finalize_parameters = NoParameters
    /\ fin_dependency_map = EmptyMap
    /\ fin_sorted_aliases = <<>>
    /\ finalized = <<>>
    /\ score = "none"

\* dependency_map = _collect_dependencies(modules, dependency_aliases)
collect_dependencies ==
    /\ ipc = "collect"
    /\ \E out \in CollectOutcomes(modules, parameters, dependency_aliases) :
          /\ dependency_map' = out.map
          /\ exc' = out.exc
          /\ ipc' = IF out.exc.type = "none" THEN "sort" ELSE "raised"
    /\ UNCHANGED <<dependency_aliases, sorted_aliases, solverVars, diffVars, initVars, replaceVars, adjustVars, mergeVars, parseVars, callsVars>>

\* sorted_aliases = _sort_modules(dependency_map, dependency_aliases,
\*                                'initialization')
sort_modules ==
    /\ ipc = "sort"
    /\ \E out \in SortOutcomes(dependency_map, dependency_aliases, "initialization") :
          /\ sorted_aliases' = out.order
          /\ exc' = out.exc
          /\ ipc' = IF out.exc.type = "none" THEN "loop" ELSE "raised"
    /\ UNCHANGED <<dependency_aliases, dependency_map, solverVars, diffVars, initVars, replaceVars, adjustVars, mergeVars, parseVars, callsVars>>

\* the key of initialized a keyword argument is read from
KwargSource(al, alias, dep) == IF al[alias][dep] # None THEN al[alias][dep] ELSE dep

\* mutant: whatever init returns is taken for a ConfiguredModule
AnyReturnAccepted(conf) == TRUE

\* isinstance(conf, ConfiguredModule)
IsConfiguredModule(conf) == conf = "ConfiguredModule"

\* what a module's init can return: a ConfiguredModule, whose class
\* declares the finalize dependencies finalize_parameters holds for the
\* alias (none for a class that inherits _finalize(self) of
\* ConfiguredModule), or something else
InitReturns(alias) ==
    {[conf |-> "other", fin |-> finalize_parameters[alias]],
     [conf |-> "ConfiguredModule", fin |-> finalize_parameters[alias]]}

\* one pass of "for alias in sorted_aliases" in _init
init_module ==
    /\ ipc = "loop"
    /\ Len(init_calls) < Len(sorted_aliases)
    /\ LET alias == sorted_aliases[Len(init_calls) + 1]
           module_dependencies == dependency_map.deps[alias]
           kwargs == [dep \in Names |-> IF dep \in module_dependencies
                                        THEN KwargSource(dependency_aliases, alias, dep)
                                        ELSE None]
       IN IF \/ modules[alias] = None
             \/ alias \notin dependency_map.keys
             \/ \E dep \in module_dependencies : kwargs[dep] \notin initialized
          THEN /\ exc' = KeyError
               /\ ipc' = "raised"
               /\ UNCHANGED <<initialized, init_calls, finalize_parameters>>
          ELSE \E ret \in InitReturns(alias) :
               /\ init_calls' = Append(init_calls, [alias |-> alias, kwargs |-> kwargs, conf |-> ret.conf])
               /\ IF IsConfiguredModule(ret.conf)
                  THEN /\ initialized' = initialized \cup {alias}
                       /\ finalize_parameters' = [finalize_parameters EXCEPT ![alias] = ret.fin]
                       /\ UNCHANGED <<exc, ipc>>
                  ELSE /\ exc' = InitializationError
                       /\ ipc' = "raised"
                       /\ UNCHANGED <<initialized, finalize_parameters>>
    /\ UNCHANGED <<modules, parameters, dependency_aliases, dependency_map, sorted_aliases,
                   fin_dependency_map, fin_sorted_aliases, finalized, score, solverVars, diffVars, replaceVars, adjustVars, mergeVars, parseVars, callsVars>>

\* some module's _finalize_dependencies is a dict with a key: line 219 hands
\* the dict on as the list of (name, is_optional) pairs, and line 339,
\* "for dependency, is_optional in module_dependencies", unpacks the key, a
\* string, into two names: ValueError for a key that has not two characters
\* (as all names here)
DictDependencies(inits, pars) == \E x \in inits, d \in Names : pars[x][d] = "dictkey"

\* score = ConfiguredScore(confdict, initialized, dependency_aliases) and
\* score._finalize() up to its loop: the finalize dependencies are
\* collected, pruned against the modules and 'score', and sorted
finalize_begin ==
    /\ ipc = "loop"
    /\ Len(init_calls) = Len(sorted_aliases)
    /\ score' = "built"
    /\ LET pruned == RemoveMissing(initialized \cup {"score"}, initialized, finalize_parameters, dependency_aliases)
       IN IF DictDependencies(initialized, finalize_parameters)
          THEN /\ exc' = ValueError
               /\ ipc' = "raised"
               /\ UNCHANGED <<fin_dependency_map, fin_sorted_aliases>>
          ELSE
          /\ fin_dependency_map' = pruned.map
          /\ IF pruned.exc.type # "none"
             THEN /\ exc' = pruned.exc
                  /\ ipc' = "raised"
                  /\ UNCHANGED fin_sorted_aliases
             ELSE \E out \in SortOutcomes(pruned.map, dependency_aliases, "finalization") :
                  /\ fin_sorted_aliases' = out.order
                  /\ exc' = out.exc
                  /\ ipc' = IF out.exc.type = "none" THEN "finloop" ELSE "raised"
    /\ UNCHANGED <<modules, parameters, dependency_aliases, dependency_map, sorted_aliases,
                   initialized, init_calls, finalize_parameters, finalized, solverVars, diffVars, replaceVars, adjustVars, mergeVars, parseVars, callsVars>>

\* mutant: the loop of _finalize runs from the end of the order
FinalizeBackwards(order) == [i \in 1..Len(Without(order, "score")) |-> Without(order, "score")[Len(Without(order, "score")) + 1 - i]]

\* the aliases the loop of _finalize does not skip
FinalizeOrder(order) == Without(order, "score")

\* one pass of "for alias in sorted_aliases" in _finalize
finalize_module ==
    /\ ipc = "finloop"
    /\ Len(finalized) < Len(FinalizeOrder(fin_sorted_aliases))
    /\ LET alias == FinalizeOrder(fin_sorted_aliases)[Len(finalized) + 1]
       IN IF alias \notin fin_dependency_map.keys
          THEN /\ exc' = KeyError
               /\ ipc' = "raised"
               /\ UNCHANGED finalized
          ELSE /\ finalized' = Append(finalized, alias)
               /\ UNCHANGED <<exc, ipc>>
    /\ UNCHANGED <<modules, parameters, dependency_aliases, dependency_map, sorted_aliases,
                   initialized, init_calls, finalize_parameters, fin_dependency_map,
                   fin_sorted_aliases, score, solverVars, diffVars, replaceVars, adjustVars, mergeVars, parseVars, callsVars>>

\* _finalize is through, _init returns the score
init_return ==
    /\ ipc = "finloop"
    /\ Len(finalized) = Len(FinalizeOrder(fin_sorted_aliases))
    /\ ipc' = "returned"
    /\ UNCHANGED <<dependency_aliases, dependency_map, sorted_aliases, exc, solverVars, diffVars, initVars, replaceVars, adjustVars, mergeVars, parseVars, callsVars>>

InitNext ==
    \/ collect_dependencies
    \/ sort_modules
    \/ init_module
    \/ finalize_begin
    \/ finalize_module
    \/ init_return

-----------------------------------------------------------------------------
(* Properties of _init *)

\* the numbers of the init() calls made for an alias
CallsOf(x) == {i \in 1..Len(init_calls) : init_calls[i].alias = x}

\* C7: once dependency collection and sorting have succeeded no lookup of
\* the loop fails; each init() call is the only one for its alias, every
\* dependency it retained has (after redirect) been initialized by an earlier
\* call and is passed as that call's ConfiguredModule; and when the loop is
\* through, every module of the list has had its init called.
C7_InitOrder ==
    /\ exc.type # "KeyError"
    /\ \A i \in 1..Len(init_calls) :
          /\ CallsOf(init_calls[i].alias) = {i}
          /\ \A d \in dependency_map.deps[init_calls[i].alias] :
                /\ init_calls[i].kwargs[d] = Concrete(init_calls[i].alias, d)
                /\ \E j \in 1..(i - 1) :
                      /\ init_calls[j].alias = Concrete(init_calls[i].alias, d)
                      /\ init_calls[j].conf = "ConfiguredModule"
    /\ score = "built" => \A x \in ModuleKeys(modules) : CallsOf(x) # {}

\* some init() call returned something that is no ConfiguredModule
BogusReturn == \E i \in 1..Len(init_calls) : init_calls[i].conf # "ConfiguredModule"

\* C8: when an init returns something that is no ConfiguredModule, _init has
\* raised InitializationError, that call is the last init() call made, no
\* _finalize has been called and no ConfiguredScore was built or returned.
C8_NoPartialSuccess ==
    BogusReturn =>
        /\ ipc = "raised"
        /\ exc.type = "InitializationError"
        /\ \A i \in 1..(Len(init_calls) - 1) : init_calls[i].conf = "ConfiguredModule"
        /\ finalized = <<>>
        /\ score = "none"

\* b was initialized, then a (which needs b) returned something else, and c,
\* next in the order, was never initialized
C8_Witness ==
    /\ BogusReturn
    /\ Len(init_calls) = 2
    /\ Len(sorted_aliases) = 3
    /\ init_calls[2].alias = "a"
    /\ init_calls[2].kwargs["b"] = "b"
    /\ initialized = {"b"}

\* the modules of the list other than score.init itself
Packages == {x \in ModuleKeys(modules) : modules[x] # "score.init"}

\* C25: the ConfiguredScore is built and _finalize runs only when the init
\* of every module has returned a ConfiguredModule; a module's _finalize is
\* called at most once, never for 'score', and only after the _finalize of
\* every module its retained finalize dependencies name (after redirect)
\* has returned, 'score' itself excepted; when _init returns, every module
\* has been finalized.
C25_FinalizeOrder ==
    /\ finalized # <<>> => score = "built"
    /\ score = "built" =>
          /\ ipc \notin {"collect", "sort"}
          /\ \A x \in Packages : \E i \in CallsOf(x) : init_calls[i].conf = "ConfiguredModule"
          /\ initialized = Packages
    /\ \A i \in 1..Len(finalized) :
          /\ finalized[i] # "score"
          /\ finalized[i] \in initialized
          /\ \A j \in 1..Len(finalized) : finalized[j] = finalized[i] => j = i
          /\ \A d \in fin_dependency_map.deps[finalized[i]] :
                \/ Concrete(finalized[i], d) = "score"
                \/ \E j \in 1..(i - 1) : finalized[j] = Concrete(finalized[i], d)
    /\ ipc = "returned" => Range(finalized) = Packages

\* a needs b and, through the redirect of its parameter c, the score: b was
\* finalized before a, and c, which nothing needs, after them
C25_Witness ==
    /\ ipc = "returned"
    /\ finalize_parameters["a"]["b"] = "required"
    /\ finalize_parameters["a"]["c"] = "optional"
    /\ dependency_aliases["a"]["c"] = "score"
    /\ fin_dependency_map.deps["a"] = {"b", "c"}
    /\ finalized = <<"b", "a", "c">>

-----------------------------------------------------------------------------
(* config parser: _apply_replace *)

\* strings are lists of characters; "x" never occurs in a regex
Chars == {"a", "b"}
Filler == "x"
MaxWord == 2
MaxPad == 30
MaxChain == 2

\* n times the character c
RECURSIVE Repeat(_, _)
Repeat(c, n) == IF n = 0 THEN <<>> ELSE <<c>> \o Repeat(c, n - 1)

\* one <replace:regex:replacement[:flags]> element; the regex is a single
\* literal character, the replacement a literal string, flags "" when the
\* optional flags group is not written
ReplaceElement == [regex : Chars, replacement : SeqsUpTo(Chars, 1), flags : {"", "g"}]

\* len(match.group(0)) of an element written without trailing whitespace:
\* "<replace", separator, regex, separator, replacement, flags group, ">"
ElementLen(el) ==
    8 + 1 + 1 + 1 + Len(el.replacement) + (IF el.flags = "" THEN 0 ELSE 1 + 1) + 1

\* the offset in the definition text at which element number i begins
RECURSIVE ElementOffset(_, _)
ElementOffset(defn, i) == IF i = 1 THEN 0 ELSE ElementOffset(defn, i - 1) + ElementLen(defn[i - 1])

\* _replace_regex.match(definition, start): the number of the element that
\* begins at offset start, 0 when there is none (match is None)
ReplaceMatch(defn, pos) ==
    IF \E i \in 1..Len(defn) : ElementOffset(defn, i) = pos
    THEN CHOOSE i \in 1..Len(defn) : ElementOffset(defn, i) = pos
    ELSE 0

\* re.sub of a one-character regex with count = 1: the first occurrence
RECURSIVE SubFirst(_, _, _)
SubFirst(c, repl, str) ==
    IF str = <<>> THEN <<>>
    ELSE IF str[1] = c THEN repl \o Tail(str)
    ELSE <<str[1]>> \o SubFirst(c, repl, Tail(str))

\* re.sub of a one-character regex with count = 0: every occurrence
RECURSIVE SubAll(_, _, _)
SubAll(c, repl, str) ==
    IF str = <<>> THEN <<>>
    ELSE (IF str[1] = c THEN repl ELSE <<str[1]>>) \o SubAll(c, repl, Tail(str))

\* count = 1, or 0 if 'g' in flags; tmp = re.sub(regex, replacement, replaced, count)
ReSub(el, str) == IF el.flags = "g" THEN SubAll(el.regex, el.replacement, str) ELSE SubFirst(el.regex, el.replacement, str)

ReplaceOff ==
    /\ rep_original = <<>>
    /\ definition = <<>>
    /\ start = 0
    /\ replaced = <<>>
    /\ rstate = "off"
    /\ applied = <<>>

\* _apply_replace is entered with a base value (a word followed by filler
\* of any length up to MaxPad) and a chain of one to MaxChain elements
ReplaceInit ==
    /\ \E w \in SeqsUpTo(Chars, MaxWord), n \in 0..MaxPad : rep_original = w \o Repeat(Filler, n)
    /\ definition \in SeqsUpTo(ReplaceElement, MaxChain) \ {<<>>}
    /\ start = 0
    /\ replaced = rep_original
    /\ rstate = "run"
    /\ applied = <<>>

\* one pass of "while original[start:]"
ReplaceStep ==
    /\ rstate = "run"
    /\ start < Len(rep_original)
    /\ LET match == ReplaceMatch(definition, start)
       IN IF match = 0
          THEN /\ rstate' = "error"
               /\ UNCHANGED <<start, replaced, applied>>
          ELSE /\ start' = start + ElementLen(definition[match])
               /\ replaced' = ReSub(definition[match], replaced)
               /\ applied' = Append(applied, match)
               /\ UNCHANGED rstate
    /\ UNCHANGED <<rep_original, definition, solverVars, diffVars, sortVars, initVars, adjustVars, mergeVars, parseVars, callsVars>>

\* original[start:] is empty: return replaced
ReplaceReturn ==
    /\ rstate = "run"
    /\ start >= Len(rep_original)
    /\ rstate' = "done"
    /\ UNCHANGED <<rep_original, definition, start, replaced, applied, solverVars, diffVars, sortVars, initVars, adjustVars, mergeVars, parseVars, callsVars>>

ReplaceNext == ReplaceStep \/ ReplaceReturn

-----------------------------------------------------------------------------
(* Properties of _apply_replace *)

\* the elements of a chain applied one after the other, each on the result
\* of the one before, the first on the base value
RECURSIVE ApplyChain(_, _)
ApplyChain(defn, base) ==
    IF defn = <<>> THEN base
    ELSE ReSub(defn[Len(defn)], ApplyChain(SubSeq(defn, 1, Len(defn) - 1), base))

\* C11: the call does not raise for a well-formed chain, and when it returns
\* every element has been applied once, in declaration order, so the result
\* is the chain applied step by step to the base value, whatever its length.
C11_ReplaceChain ==
    /\ rstate # "error"
    /\ rstate = "done" =>
          /\ applied = [i \in 1..Len(definition) |-> i]
          /\ replaced = ApplyChain(definition, rep_original)

\* C30: ConfigurationError is raised only at a place of the definition text
\* at which no <replace> element begins; the text of a well-formed chain has
\* no such place before its end, so for a well-formed chain the call raises
\* for no base value, whether empty, shorter or longer than the text.
C30_RaisesOnlyMalformed ==
    rstate = "error" => start < ElementOffset(definition, Len(definition) + 1)

-----------------------------------------------------------------------------
(* config parser: documents and _apply_adjustment *)

SectionNames == {"score.init", "s1", "s2"}
KeyNames == {"k1", "k2", "based_on", "include", "_files", "here"}

\* A value is a string; kind tells how _apply_adjustment classifies it:
\* "literal" (lines holds parse_list of it), "delete" ('<delete>'), "diff"
\* (dlines holds the diff lines) or "replace" (chain holds the elements).
\* kind "absent" stands for a key without value.
Absent == [kind |-> "absent", lines |-> <<>>, dlines |-> <<>>, chain |-> <<>>]
Lit(ls) == [kind |-> "literal", lines |-> ls, dlines |-> <<>>, chain |-> <<>>]
DeleteValue == [kind |-> "delete", lines |-> <<>>, dlines |-> <<>>, chain |-> <<>>]
DiffValue(dls) == [kind |-> "diff", lines |-> <<>>, dlines |-> dls, chain |-> <<>>]
ReplaceValue(ch) == [kind |-> "replace", lines |-> <<>>, dlines |-> <<>>, chain |-> ch]

\* a <replace> element whose regex and replacement are literal line texts
LineElement == [regex : Texts, replacement : Texts, flags : {"", "g"}]

\* A document: the sections it has besides DEFAULT, the keys each section
\* holds itself, and the keys of DEFAULT, which every section inherits
NoKeys == [k \in KeyNames |-> Absent]
EmptyDoc == [sections |-> {}, own |-> [sec \in SectionNames |-> NoKeys], defaults |-> NoKeys]

\* "key in doc[section]" and doc[section][key] of a configparser section
HasKey(doc, sec, key) == sec \in doc.sections /\ (doc.own[sec][key] # Absent \/ doc.defaults[key] # Absent)
Get(doc, sec, key) == IF doc.own[sec][key] # Absent THEN doc.own[sec][key] ELSE doc.defaults[key]

\* the keys "for key in doc[section]" runs through
KeysOf(doc, sec) == {k \in KeyNames : doc.own[sec][k] # Absent \/ doc.defaults[k] # Absent}

\* doc[section][key] = value, and "if section not in doc: doc[section] = {}"
SetKey(doc, sec, key, value) == [doc EXCEPT !.own[sec][key] = value]
AddSection(doc, sec) == [doc EXCEPT !.sections = @ \cup {sec}]

\* _apply_diff(section, key, original, diff) from diff line number i on:
\* the lines it returns, or failure when a line is not found
RECURSIVE DiffFrom(_, _, _, _)
DiffFrom(ls, dls, i, a) ==
    IF i > Len(dls) THEN [ok |-> TRUE, lines |-> ls]
    ELSE IF dls[i].mark = "+" THEN DiffFrom(ListInsert(ls, a, dls[i].text), dls, i + 1, a)
    ELSE IF IndexOf(ls, dls[i].text) = 0 THEN [ok |-> FALSE, lines |-> ls]
    ELSE IF dls[i].mark = "-"
    THEN DiffFrom(DelAt(ls, RemovalAnchor(ls, dls[i].text)), dls, i + 1, RemovalAnchor(ls, dls[i].text))
    ELSE DiffFrom(ls, dls, i + 1, ContextAnchor(ls, dls[i].text))

\* len() of a value of these lines: every text has three characters, the
\* lines are joined with newlines
StrLen(ls) == IF ls = <<>> THEN 0 ELSE 4 * Len(ls) - 1

\* len(match.group(0)) of an element with three-character regex and replacement
LineElementLen(el) == 8 + 1 + 3 + 1 + 3 + (IF el.flags = "" THEN 0 ELSE 1 + 1) + 1

\* re.sub of a literal line text on the joined lines
LineSub(el, ls) ==
    IF el.flags = "g" THEN [i \in 1..Len(ls) |-> IF ls[i] = el.regex THEN el.replacement ELSE ls[i]]
    ELSE IF IndexOf(ls, el.regex) = 0 THEN ls
    ELSE [ls EXCEPT ![IndexOf(ls, el.regex)] = el.replacement]

\* _apply_replace(section, key, original, definition) from element number i
\* on, with start at the begin of that element
RECURSIVE ReplaceFrom(_, _, _, _, _)
ReplaceFrom(orig, ch, i, pos, cur) ==
    IF pos >= StrLen(orig) THEN [ok |-> TRUE, lines |-> cur]
    ELSE IF i > Len(ch) THEN [ok |-> FALSE, lines |-> cur]
    ELSE ReplaceFrom(orig, ch, i + 1, pos + LineElementLen(ch[i]), LineSub(ch[i], cur))

\* mutant: the delete of a missing key raises as a diff does
DeleteMissingRaises(doc, sec, key) == [doc |-> doc, warn |-> FALSE, error |-> TRUE]

\* "except KeyError: warnings.warn(...)"
DeleteMissing(doc, sec, key) == [doc |-> doc, warn |-> TRUE, error |-> FALSE]

\* "del settings[section][key]" when the section holds the key itself
DeleteKey(doc, sec, key) == [doc EXCEPT !.own[sec][key] = Absent]

\* DiffFailureIgnored: the lines the diff got to are stored, nothing raised
DiffFailureIgnored(doc, sec, key, res) == [doc |-> SetKey(doc, sec, key, Lit(res.lines)), warn |-> FALSE, error |-> FALSE]

\* _apply_diff raised: the assignment of line 347 is not reached
DiffFailure(doc, sec, key, res) == [doc |-> doc, warn |-> FALSE, error |-> TRUE]

\* _apply_adjustment(file, settings, section, key, value): the settings it
\* leaves, whether it warned, whether it raised ConfigurationError
ApplyAdjustment(doc, sec, key, value) ==
    IF value.kind = "delete"
    THEN IF sec \in doc.sections /\ doc.own[sec][key] # Absent
         THEN [doc |-> DeleteKey(doc, sec, key), warn |-> FALSE, error |-> FALSE]
         ELSE DeleteMissing(doc, sec, key)
    ELSE IF value.kind = "diff"
    THEN IF ~HasKey(doc, sec, key)
         THEN [doc |-> doc, warn |-> FALSE, error |-> TRUE]
         ELSE LET res == DiffFrom(Get(doc, sec, key).lines, value.dlines, 1, 0)
              IN IF res.ok
                 THEN [doc |-> SetKey(doc, sec, key, Lit(res.lines)), warn |-> FALSE, error |-> FALSE]
                 ELSE DiffFailure(doc, sec, key, res)
    ELSE IF value.kind = "replace"
    THEN IF ~HasKey(doc, sec, key)
         THEN [doc |-> doc, warn |-> FALSE, error |-> TRUE]
         ELSE LET orig == Get(doc, sec, key).lines
                  res == ReplaceFrom(orig, value.chain, 1, 0, orig)
              IN IF res.ok
                 THEN [doc |-> SetKey(doc, sec, key, Lit(res.lines)), warn |-> FALSE, error |-> FALSE]
                 ELSE [doc |-> doc, warn |-> FALSE, error |-> TRUE]
    ELSE [doc |-> SetKey(AddSection(doc, sec), sec, key, value), warn |-> FALSE, error |-> FALSE]

\* the pairs the loops of _apply_adjustments call _apply_adjustment for: all
\* keys of all sections but DEFAULT, a key whose value equals the value of
\* the same key in DEFAULT left out
AdjustmentPairs(adj) ==
    {p \in adj.sections \X KeyNames :
        /\ p[2] \in KeysOf(adj, p[1])
        /\ Get(adj, p[1], p[2]) # adj.defaults[p[2]]}

-----------------------------------------------------------------------------
(* config parser: _apply_adjustments *)

MaxEntries == 2
MaxAdjust == 2

UserSections == {"s1", "s2"}
UserKeys == {"k1", "k2"}

\* the sections and keys the documents have entries for
UserSlots == {<<"s1", "k1">>, <<"s1", "k2">>, <<"s2", "k1">>}

\* the values of the adjusted document, and the values of the adjusting one
SettingValues == {Lit(<<"foo">>), Lit(<<"bar">>)}
AdjustValues ==
    {DeleteValue,
     DiffValue(<<[mark |-> "+", text |-> "baz"]>>),
     DiffValue(<<[mark |-> "-", text |-> "foo"], [mark |-> "", text |-> "foo"]>>),
     ReplaceValue(<<[regex |-> "foo", replacement |-> "baz", flags |-> ""]>>),
     Lit(<<"baz">>)}

\* the document with these sections whose sections hold the entries of f, a
\* function from (section, key) pairs to values, and with these DEFAULT keys
DocOf(secs, f, dflt) ==
    [sections |-> secs \cup {p[1] : p \in DOMAIN f},
     own |-> [sec \in SectionNames |-> [k \in KeyNames |-> IF <<sec, k>> \in DOMAIN f THEN f[<<sec, k>>] ELSE Absent]],
     defaults |-> dflt]

\* the functions from up to n pairs of slots to vals
EntryInputs(slots, vals, n) == UNION {[E -> vals] : E \in {Q \in SUBSET slots : Cardinality(Q) <= n}}

\* DEFAULT is empty, or gives k1 the value v
DefaultInputs(v) == {NoKeys, [NoKeys EXCEPT !["k1"] = v]}

AdjustOff ==
    /\ settings = EmptyDoc
    /\ adjustments = EmptyDoc
    /\ todo = {}
    /\ warned = {}
    /\ adjusted = {}
    /\ astate = "off"

\* _apply_adjustments(file, settings, adjustments) is entered
AdjustInit ==
    /\ settings \in {DocOf(secs, f, d) : secs \in SUBSET UserSections,
                                         f \in EntryInputs(UserSlots, SettingValues, MaxEntries),
                                         d \in DefaultInputs(Lit(<<"foo">>))}
    /\ adjustments \in {DocOf({}, f, d) : f \in EntryInputs(UserSlots, AdjustValues, MaxAdjust),
                                          d \in DefaultInputs(Lit(<<"baz">>))}
    /\ todo = AdjustmentPairs(adjustments)
    /\ warned = {}
    /\ adjusted = {}
    /\ astate = "run"

\* one call _apply_adjustment(file, settings, section, key, value) of the
\* loops, for the next pair they reach
AdjustStep ==
    /\ astate = "run"
    /\ \E p \in todo :
          LET out == ApplyAdjustment(settings, p[1], p[2], Get(adjustments, p[1], p[2]))
          IN /\ settings' = out.doc
             /\ todo' = todo \ {p}
             /\ warned' = IF out.warn THEN warned \cup {p} ELSE warned
             /\ adjusted' = IF out.error THEN adjusted ELSE adjusted \cup {p}
             /\ astate' = IF out.error THEN "error" ELSE "run"
    /\ UNCHANGED <<adjustments, solverVars, diffVars, sortVars, initVars, replaceVars, mergeVars, parseVars, callsVars>>

\* the loops are through
AdjustReturn ==
    /\ astate = "run"
    /\ todo = {}
    /\ astate' = "done"
    /\ UNCHANGED <<settings, adjustments, todo, warned, adjusted, solverVars, diffVars, sortVars, initVars, replaceVars, mergeVars, parseVars, callsVars>>

AdjustNext == AdjustStep \/ AdjustReturn

\* the section or the key of this pair is not in the settings
TargetMissing(p) == ~HasKey(settings, p[1], p[2])

\* C12: when the adjustments are through, a key that a <delete> adjustment
\* found is no longer in its section, and a section that is left without a
\* key of its own by it is no longer in the document.
C12_DeleteRemovesEmptySection ==
    astate = "done" =>
        \A p \in adjusted \ warned :
            Get(adjustments, p[1], p[2]).kind = "delete" =>
                /\ settings.own[p[1]][p[2]] = Absent
                /\ (\A k \in KeyNames : settings.own[p[1]][k] = Absent) => p[1] \notin settings.sections

\* C13: a <diff> or <replace> adjustment whose section or key is missing
\* raises ConfigurationError; a <delete> adjustment whose section or key is
\* missing warns, leaves the document as it is and does not end the loops,
\* which go on to apply every remaining adjustment.
C13_MissingTarget ==
    /\ [](astate = "done" => adjusted = AdjustmentPairs(adjustments))
    /\ [][\A p \in todo \ todo' :
             LET kind == Get(adjustments, p[1], p[2]).kind
             IN /\ (kind \in {"diff", "replace"} /\ TargetMissing(p)) => astate' = "error"
                /\ (kind = "delete" /\ TargetMissing(p)) =>
                      /\ astate' = "run"
                      /\ settings' = settings
                      /\ p \in warned']_vars

\* C23: a <diff> adjustment raises ConfigurationError when its context or
\* removal line is not among the lines of the value, and also when it is
\* among them in the base but no longer after the removal line before it;
\* whenever an adjustment raises, the settings keep the values they had.
C23_DiffFailure ==
    [][\A p \in todo \ todo' :
          LET v == Get(adjustments, p[1], p[2])
              cur == Get(settings, p[1], p[2]).lines
          IN /\ (v.kind = "diff" /\ ~TargetMissing(p)) =>
                   /\ (v.dlines[1].mark # "+" /\ v.dlines[1].text \notin Range(cur)) => astate' = "error"
                   /\ (/\ Len(v.dlines) = 2
                       /\ v.dlines[1].mark = "-"
                       /\ v.dlines[2].mark # "+"
                       /\ v.dlines[1].text \in Range(cur)
                       /\ v.dlines[2].text \notin Range(RemoveAt(cur, IndexOf(cur, v.dlines[1].text))))
                         => astate' = "error"
             /\ astate' = "error" => settings' = settings]_vars

\* a diff removed foo and then asked for it as context: the call raised and
\* the value is still foo
C23_Witness ==
    /\ astate = "error"
    /\ \E p \in AdjustmentPairs(adjustments) \ (todo \cup adjusted) :
          /\ Get(adjustments, p[1], p[2]).kind = "diff"
          /\ Len(Get(adjustments, p[1], p[2]).dlines) = 2
          /\ settings.own[p[1]][p[2]] = Lit(<<"foo">>)

\* a delete adjustment warned, and another adjustment was applied
C13_Witness ==
    /\ astate = "done"
    /\ \E p \in warned : Get(adjustments, p[1], p[2]).kind = "delete" /\ ~HasKey(settings, p[1], p[2])
    /\ adjusted \ warned # {}

-----------------------------------------------------------------------------
(* config parser: _merge_settings *)

MaxBases == 2

\* the sections and keys of the merged documents
MergeSlots == {<<"s1", "k1">>, <<"s1", "k2">>}

\* NeverDefaultValue: no value counts as the DEFAULT value
NeverDefaultValue(other, sec, key) == FALSE

\* "key in other['DEFAULT'] and other['DEFAULT'][key] == value"
IsDefaultValue(other, sec, key) == other.defaults[key] # Absent /\ other.defaults[key] = Get(other, sec, key)

\* one round of "for other in settings": every section of other but DEFAULT
\* is created in the result, every key the section shows is copied unless its
\* value is the DEFAULT value
MergeOne(res, other) ==
    [sections |-> res.sections \cup other.sections,
     own |-> [sec \in SectionNames |-> [k \in KeyNames |->
                 IF sec \in other.sections /\ k \in KeysOf(other, sec) /\ ~IsDefaultValue(other, sec, k)
                 THEN Get(other, sec, k)
                 ELSE res.own[sec][k]]],
     defaults |-> res.defaults]

\* _merge_settings(*docs)
RECURSIVE MergeSettings(_)
MergeSettings(docs) ==
    IF docs = <<>> THEN EmptyDoc
    ELSE MergeOne(MergeSettings(SubSeq(docs, 1, Len(docs) - 1)), docs[Len(docs)])

MergeInputs ==
    {DocOf(secs, f, d) : secs \in {{}, {"s2"}},
                         f \in EntryInputs(MergeSlots, SettingValues, MaxEntries),
                         d \in DefaultInputs(Lit(<<"foo">>))}

MergeOff ==
    /\ others = <<>>
    /\ result = EmptyDoc
    /\ mindex = 0
    /\ mstate = "off"

\* _merge_settings(*settings) is entered: result is a new ConfigParser
MergeInit ==
    /\ others \in UNION {[1..n -> MergeInputs] : n \in 0..MaxBases}
    /\ result = EmptyDoc
    /\ mindex = 0
    /\ mstate = "run"

\* one round of the loop over the given documents
MergeStep ==
    /\ mstate = "run"
    /\ mindex < Len(others)
    /\ mindex' = mindex + 1
    /\ result' = MergeOne(result, others[mindex + 1])
    /\ UNCHANGED <<others, mstate, solverVars, diffVars, sortVars, initVars, replaceVars, adjustVars, parseVars, callsVars>>

\* "return result"
MergeReturn ==
    /\ mstate = "run"
    /\ mindex = Len(others)
    /\ mstate' = "done"
    /\ UNCHANGED <<others, result, mindex, solverVars, diffVars, sortVars, initVars, replaceVars, adjustVars, parseVars, callsVars>>

MergeNext == MergeStep \/ MergeReturn

\* the given documents that have the key in the section with a value that is
\* not their own DEFAULT value of the key
Overriders(sec, key) ==
    {i \in 1..Len(others) :
        /\ HasKey(others[i], sec, key)
        /\ Get(others[i], sec, key) # others[i].defaults[key]}

Last(I) == CHOOSE i \in I : \A j \in I : j <= i

\* C14: the merged document has, for every section and key, the value of the
\* last given document that has the key with a value other than its own
\* DEFAULT value, and does not have the key if there is no such document; a
\* value equal to the DEFAULT value of its document overrides nothing; the
\* DEFAULT section of the merged document is empty.
C14_MergeLastWins ==
    mstate = "done" =>
        /\ result.defaults = NoKeys
        /\ \A sec \in SectionNames, key \in KeyNames :
              result.own[sec][key] =
                 IF Overriders(sec, key) = {} THEN Absent
                 ELSE Get(others[Last(Overriders(sec, key))], sec, key)

\* a later document has the key with its DEFAULT value, and the merged
\* document holds the different value of an earlier document
C14_Witness ==
    /\ mstate = "done"
    /\ \E sec \in SectionNames, key \in KeyNames, i, j \in 1..Len(others) :
          /\ i < j
          /\ i \in Overriders(sec, key)
          /\ HasKey(others[j], sec, key)
          /\ IsDefaultValue(others[j], sec, key)
          /\ Get(others[j], sec, key) # Get(others[i], sec, key)
          /\ result.own[sec][key] = Get(others[i], sec, key)

-----------------------------------------------------------------------------
(* config parser: parse, _parse, _parse_bases, _parse_includes *)

MaxBasedOn == 2
MaxIncludes == 2
MaxDepth == 5

\* The files on disk, by their absolute path in normal form. All of them are
\* in one directory, which is the working directory too.
BaseFiles == {"/a", "/b", "/c", "/d"}
IncludeFiles == {"/i1", "/i2"}
DiskFiles == BaseFiles \cup IncludeFiles

\* The ways the documents spell a path: relative to the directory, or
\* absolute but not in normal form.
BaseNames == {"a", "b", "c", "d"}
IncludeNames == {"i1", "i2"}
AltPath == "/x/../a"
BasePaths == BaseNames \cup {AltPath}

\* os.path.isabs
IsAbs(path) == path \in DiskFiles \cup {AltPath}

\* os.path.abspath(os.path.join(here, path)): the normal form
Abspath(path) ==
    CASE path \in DiskFiles -> path
      [] path = AltPath -> "/a"
      [] path = "a" -> "/a"
      [] path = "b" -> "/b"
      [] path = "c" -> "/c"
      [] path = "d" -> "/d"
      [] path = "i1" -> "/i1"
      [] path = "i2" -> "/i2"
      [] OTHER -> "/"

\* os.path.dirname(file), '.' for the empty string
Dirname(path) ==
    CASE path = AltPath -> "/x/.."
      [] path \in DiskFiles -> "/"
      [] OTHER -> "."

\* "base = os.path.join(settings['DEFAULT']['here'], base)" and abspath for
\* a relative base, the base as it is spelled for an absolute one
ResolveBase(base) == IF IsAbs(base) THEN base ELSE Abspath(base)

\* lines 167-173: the file as configparser reads it, DEFAULT/here set
ReadFile(path) == [fs[Abspath(path)] EXCEPT !.defaults["here"] = Lit(<<Dirname(path)>>)]

\* the text of a file: its based_on list (or none), its include list (or
\* none) and its value of s1/k1 (or none)
NoList == [declared |-> FALSE, paths |-> <<>>]
DeclaredList(paths) == [declared |-> TRUE, paths |-> paths]
FileText(based_on, include, value) ==
    DocOf({},
          [q \in ((IF based_on.declared THEN {<<"score.init", "based_on">>} ELSE {})
                  \cup (IF include.declared THEN {<<"score.init", "include">>} ELSE {})
                  \cup (IF value # Absent THEN {<<"s1", "k1">>} ELSE {})) |->
              IF q[2] = "based_on" THEN Lit(based_on.paths)
              ELSE IF q[2] = "include" THEN Lit(include.paths)
              ELSE value],
          NoKeys)

\* the based_on list of the document of a file
BasedOn(doc) ==
    IF HasKey(doc, "score.init", "based_on") THEN Get(doc, "score.init", "based_on").lines ELSE <<>>

\* the files a file system reaches from /a through based_on in up to n steps
RECURSIVE Reached(_, _)
Reached(f, n) ==
    IF n = 0 THEN {"/a"}
    ELSE LET R == Reached(f, n - 1)
         IN R \cup {Abspath(BasedOn(f[r])[i]) : <<r, i>> \in {q \in R \X (1..(MaxBasedOn + 1)) : q[2] <= Len(BasedOn(f[q[1]]))}}

\* no based_on, or a based_on list of up to n different paths
BaseLists(paths, n) ==
    {NoList} \cup {DeclaredList(l) : l \in {q \in SeqsUpTo(paths, n) : \A i, j \in 1..Len(q) : i # j => q[i] # q[j]}}

\* a plain file that sets s1/k1 to its own name
PlainText(name) == FileText(NoList, NoList, Lit(<<name>>))

\* Inheritance: /a is based on up to MaxBasedOn paths, each other file on up
\* to one, spelled relative; every file sets s1/k1 to its name; a file
\* nothing reaches is plain.
InheritanceInputs ==
    {f \in {[x \in DiskFiles |->
               CASE x = "/a" -> FileText(la, NoList, Lit(<<"a">>))
                 [] x = "/b" -> FileText(lb, NoList, Lit(<<"b">>))
                 [] x = "/c" -> FileText(lc, NoList, Lit(<<"c">>))
                 [] x = "/d" -> FileText(ld, NoList, Lit(<<"d">>))
                 [] x = "/i1" -> PlainText("i1")
                 [] x = "/i2" -> PlainText("i2")] :
             la \in BaseLists(BasePaths, MaxBasedOn),
             lb \in BaseLists(BaseNames, 1), lc \in BaseLists(BaseNames, 1), ld \in BaseLists(BaseNames, 1)} :
        \A x \in BaseFiles \ Reached(f, 3) : BasedOn(f[x]) = <<>> /\ ~HasKey(f[x], "score.init", "based_on")}

\* what an included file says about s1/k1
IncludeValues(name) == {Lit(<<name>>), DiffValue(<<[mark |-> "+", text |-> name]>>), DeleteValue}

\* Layering: /a is plain or based on /b, includes up to MaxIncludes files
\* and sets s1/k1, adds a line to it or leaves it alone; /i2 may be based on
\* /d; an include file /a does not name is plain, and /a adds a line only to
\* the value of a base.
LayeringInputs ==
    {f \in {[x \in DiskFiles |->
               CASE x = "/a" -> FileText(la, IF incs = <<>> THEN NoList ELSE DeclaredList(incs), va)
                 [] x = "/b" -> PlainText("b")
                 [] x = "/c" -> PlainText("c")
                 [] x = "/d" -> PlainText("d")
                 [] x = "/i1" -> FileText(NoList, NoList, v1)
                 [] x = "/i2" -> FileText(l2, NoList, v2)] :
             la \in {NoList, DeclaredList(<<"b">>)},
             incs \in SeqsUpTo(IncludeNames, MaxIncludes),
             va \in {Absent, Lit(<<"a">>), DiffValue(<<[mark |-> "+", text |-> "a"]>>)},
             v1 \in IncludeValues("i1"),
             v2 \in IncludeValues("i2"),
             l2 \in {NoList, DeclaredList(<<"d">>)}} :
        /\ f["/a"].own["s1"]["k1"].kind = "diff" => HasKey(f["/a"], "score.init", "based_on")
        /\ \A x \in IncludeFiles :
            x \notin {Abspath(i) : i \in Range(f["/a"].own["score.init"]["include"].lines)}
                => f[x] = PlainText(IF x = "/i1" THEN "i1" ELSE "i2")}

\* The include key: /a is based on /b, which includes /i1; /a leaves the
\* include key to /b or adds /i2 to it with a <diff>, and sets s1/k1 or
\* leaves it alone.
IncludeKeyInputs ==
    {[x \in DiskFiles |->
        CASE x = "/a" -> IF patched
                         THEN SetKey(FileText(DeclaredList(<<"b">>), DeclaredList(<<>>), va), "score.init", "include",
                                     DiffValue(<<[mark |-> "+", text |-> "i2"]>>))
                         ELSE FileText(DeclaredList(<<"b">>), NoList, va)
          [] x = "/b" -> FileText(NoList, DeclaredList(<<"i1">>), Lit(<<"b">>))
          [] x = "/c" -> PlainText("c")
          [] x = "/d" -> PlainText("d")
          [] x = "/i1" -> FileText(NoList, NoList, v1)
          [] x = "/i2" -> FileText(NoList, NoList, v2)] :
     patched \in BOOLEAN,
     va \in {Absent, Lit(<<"a">>)},
     v1 \in IncludeValues("i1"),
     v2 \in IncludeValues("i2")}

FileSystems == InheritanceInputs \cup LayeringInputs \cup IncludeKeyInputs

\* _apply_adjustments(file, doc, adj) as a whole: the document it leaves and
\* whether one of its adjustments raised
RECURSIVE ApplyPairs(_, _, _)
ApplyPairs(doc, adj, pairs) ==
    IF pairs = {} THEN [doc |-> doc, error |-> FALSE]
    ELSE LET p == CHOOSE q \in pairs : TRUE
             out == ApplyAdjustment(doc, p[1], p[2], Get(adj, p[1], p[2]))
         IN IF out.error THEN [doc |-> doc, error |-> TRUE]
            ELSE ApplyPairs(out.doc, adj, pairs \ {p})

ApplyAdjustments(doc, adj) == ApplyPairs(doc, adj, AdjustmentPairs(adj))

\* x.split('\n') of the string with these lines
Split(ls) == IF ls = <<>> THEN <<"">> ELSE ls

\* RecordFilesInDefault: the list is written to the DEFAULT section
RecordFilesInDefault(doc, files) == [doc EXCEPT !.defaults["_files"] = Lit(files)]

\* lines 187-193: the section score.init is created, _files is the old
\* _files + '\n' + '\n'.join(files), or '\n'.join(files) without an old one
RecordFiles(doc, files) ==
    LET d == AddSection(doc, "score.init")
    IN IF HasKey(d, "score.init", "_files")
       THEN SetKey(d, "score.init", "_files", Lit(Split(Get(d, "score.init", "_files").lines) \o Split(files)))
       ELSE SetKey(d, "score.init", "_files", Lit(files))

\* lines 176-179 and "for include_declaration in parse_list(includes): for
\* include_file in glob(include_declaration)": the files the include value
\* of the document just read names. The lines of a value that is no plain
\* list ("<diff>", "+i2") are patterns no file matches.
IncludeFilesOf(doc) ==
    IF HasKey(doc, "score.init", "include") /\ Get(doc, "score.init", "include").kind = "literal"
    THEN Get(doc, "score.init", "include").lines
    ELSE <<>>

\* the call _parse(file, visited) from line 167 to the loop of
\* _parse_bases (line 209), or to line 185 for a file without based_on
EnterFrame(file, vis) ==
    LET doc == ReadFile(file)
        declared == HasKey(doc, "score.init", "based_on")
    IN [file |-> file,
        settings |-> doc,
        adjustments |-> IF declared THEN doc ELSE EmptyDoc,
        includes |-> IncludeFilesOf(doc),
        files |-> IF declared THEN <<Abspath(file)>> ELSE <<>>,
        bases |-> <<>>,
        todo |-> IF declared THEN BasedOn(doc) ELSE <<>>,
        pc |-> IF declared THEN "bases" ELSE "includes",
        entry_visited |-> vis]

Top == stack[Len(stack)]

\* FreshDocument: the include is applied to a new, empty document
FreshDocument(fr) == EmptyDoc

\* the document _parse_includes hands to _apply_adjustments: the settings
\* _parse_bases returned, as the earlier includes left them
Accumulated(fr) == fr.settings

SetTop(fr) == [stack EXCEPT ![Len(stack)] = fr]

ParseOff ==
    /\ fs = [x \in DiskFiles |-> EmptyDoc]
    /\ pfile = ""
    /\ precurse = FALSE
    /\ stack = <<>>
    /\ visited = <<>>
    /\ presult = EmptyDoc
    /\ pstate = "off"

\* parse(file, recurse=...) is called on a file system
ParseInit ==
    /\ fs \in FileSystems
    /\ pfile = "a"
    /\ precurse \in BOOLEAN
    /\ stack = <<>>
    /\ visited = <<>>
    /\ presult = EmptyDoc
    /\ pstate = "call"

\* "return _parse(file, [], recurse)", to line 175 or to the first loop
parse ==
    /\ pstate = "call"
    /\ IF precurse
       THEN /\ stack' = <<EnterFrame(pfile, <<>>)>>
            /\ visited' = <<Abspath(pfile)>>
            /\ pstate' = "run"
            /\ UNCHANGED presult
       ELSE /\ presult' = ReadFile(pfile)
            /\ pstate' = "done"
            /\ UNCHANGED <<stack, visited>>
    /\ UNCHANGED <<fs, pfile, precurse, solverVars, diffVars, sortVars, initVars, replaceVars, adjustVars, mergeVars, callsVars>>

\* one round of the loop of _parse_bases, to the call _parse(base, visited)
parse_bases_loop ==
    /\ pstate = "run"
    /\ Top.pc = "bases"
    /\ Top.todo # <<>>
    /\ LET base == ResolveBase(Head(Top.todo))
       IN IF base \in Range(visited)
          THEN /\ pstate' = "loop_error"
               /\ UNCHANGED <<stack, visited>>
          ELSE IF Len(stack) >= MaxDepth
          THEN /\ pstate' = "recursion_error"
               /\ UNCHANGED <<stack, visited>>
          ELSE /\ stack' = Append(SetTop([Top EXCEPT !.files = Append(@, base), !.todo = Tail(@)]),
                                  EnterFrame(base, visited))
               /\ visited' = Append(visited, Abspath(base))
               /\ UNCHANGED pstate
    /\ UNCHANGED <<fs, pfile, precurse, presult, solverVars, diffVars, sortVars, initVars, replaceVars, adjustVars, mergeVars, callsVars>>

\* the end of _parse_bases: the bases are merged and adjusted
parse_bases_merge ==
    /\ pstate = "run"
    /\ Top.pc = "bases"
    /\ Top.todo = <<>>
    /\ LET out == ApplyAdjustments(MergeSettings(Top.bases), Top.adjustments)
       IN IF out.error
          THEN /\ pstate' = "config_error"
               /\ UNCHANGED stack
          ELSE /\ stack' = SetTop([Top EXCEPT !.settings = out.doc, !.pc = "includes"])
               /\ UNCHANGED pstate
    /\ UNCHANGED <<fs, pfile, precurse, visited, presult, solverVars, diffVars, sortVars, initVars, replaceVars, adjustVars, mergeVars, callsVars>>

\* one round of the loops of _parse_includes
parse_includes_loop ==
    /\ pstate = "run"
    /\ Top.pc = "includes"
    /\ Top.includes # <<>>
    /\ LET include_file == Head(Top.includes)
           include == ReadFile(include_file)
           out == ApplyAdjustments(Accumulated(Top), include)
       IN IF BasedOn(include) # <<>> \/ out.error
          THEN /\ pstate' = "config_error"
               /\ UNCHANGED stack
          ELSE /\ stack' = SetTop([Top EXCEPT !.settings = out.doc,
                                              !.files = Append(@, include_file),
                                              !.includes = Tail(@)])
               /\ UNCHANGED pstate
    /\ UNCHANGED <<fs, pfile, precurse, visited, presult, solverVars, diffVars, sortVars, initVars, replaceVars, adjustVars, mergeVars, callsVars>>

\* lines 186-194: the call returns to the loop of its caller, or to parse
parse_return ==
    /\ pstate = "run"
    /\ Top.pc = "includes"
    /\ Top.includes = <<>>
    /\ visited' = SubSeq(visited, 1, Len(visited) - 1)
    /\ LET doc == RecordFiles(Top.settings, Top.files)
           rest == SubSeq(stack, 1, Len(stack) - 1)
       IN IF rest = <<>>
          THEN /\ presult' = doc
               /\ pstate' = "done"
               /\ stack' = rest
          ELSE /\ stack' = [rest EXCEPT ![Len(rest)].bases = Append(@, doc)]
               /\ UNCHANGED <<presult, pstate>>
    /\ UNCHANGED <<fs, pfile, precurse, solverVars, diffVars, sortVars, initVars, replaceVars, adjustVars, mergeVars, callsVars>>

ParseNext == parse \/ parse_bases_loop \/ parse_bases_merge \/ parse_includes_loop \/ parse_return

\* the files whose _parse call is active
ActiveFiles == {Abspath(stack[i].file) : i \in 1..Len(stack)}

\* C15: a round of the based_on loop raises the loop ConfigurationError
\* exactly when the base it reaches is a file whose _parse call is active
\* (the file itself included), so a file reached a second time after its
\* first call returned is parsed again; and a _parse call that returns leaves
\* the visited list as it found it.
C15_CycleDetection ==
    /\ [][(pstate = "run" /\ Top.pc = "bases" /\ Top.todo # <<>>) =>
             ((Abspath(Head(Top.todo)) \in ActiveFiles) <=> (pstate' = "loop_error"))]_vars
    /\ [][(pstate = "run" /\ Len(stack') < Len(stack)) => visited' = Top.entry_visited]_vars

\* what the file of this path says about s1/k1
IncludeValue(path) == fs[Abspath(path)].own["s1"]["k1"]

\* C16: an include is applied when the bases of the file are merged and its
\* own adjustments are applied, to the document as these and the earlier
\* includes left it: a value of the include replaces the value there, a line
\* it adds is added to the value there, a key it removes is gone and every
\* other key stays; the includes are taken in the order of the include
\* list, so the value of the last include of the list is the value of the
\* result.
C16_IncludeLayering ==
    /\ [](pstate = "run" /\ Top.pc = "includes" =>
             /\ Top.todo = <<>>
             /\ Len(Top.bases) = Len(BasedOn(ReadFile(Top.file))))
    /\ [][(pstate = "run" /\ Top.pc = "includes" /\ Top.includes # <<>> /\ pstate' = "run") =>
             LET v == IncludeValue(Head(Top.includes))
                 old == Top.settings
                 new == stack'[Len(stack)].settings
             IN /\ stack'[Len(stack)].includes = Tail(Top.includes)
                /\ v.kind = "literal" => Get(new, "s1", "k1") = v
                /\ v.kind = "diff" => Get(new, "s1", "k1") = Lit(<<v.dlines[1].text>> \o Get(old, "s1", "k1").lines)
                /\ v.kind = "delete" => new.own["s1"]["k1"] = Absent
                /\ new.sections = IF v.kind = "literal" THEN old.sections \cup {"s1"} ELSE old.sections
                /\ new.defaults = old.defaults
                /\ \A sec \in SectionNames, key \in KeyNames :
                      <<sec, key>> # <<"s1", "k1">> => new.own[sec][key] = old.own[sec][key]]_vars
    /\ [](pstate = "done" /\ precurse =>
             LET incs == BasedOn([ReadFile(pfile) EXCEPT !.own["score.init"]["based_on"] = ReadFile(pfile).own["score.init"]["include"]])
             IN (incs # <<>> /\ IncludeValue(incs[Len(incs)]).kind = "literal") =>
                   Get(presult, "s1", "k1") = IncludeValue(incs[Len(incs)]))

\* /a is based on /b, changes the value of /b and includes two files that
\* set different values: the result has the value of the second
C16_Witness ==
    /\ pstate = "done"
    /\ precurse
    /\ BasedOn(fs["/a"]) = <<"b">>
    /\ fs["/a"].own["s1"]["k1"] # Absent
    /\ fs["/a"].own["score.init"]["include"].lines = <<"i1", "i2">>
    /\ IncludeValue("i1") = Lit(<<"i1">>)
    /\ presult.own["s1"]["k1"] = Lit(<<"i2">>)

\* C26: the files a _parse call includes are those the include key names in
\* the document as it is after the bases were merged and the adjustments of
\* the file applied: an include list that comes from a base, or that the
\* file patched with a <diff>, is the list of the files included.
C26_IncludesAfterBases ==
    [][(pstate = "run" /\ Top.pc = "bases" /\ Top.todo = <<>> /\ pstate' = "run") =>
          stack'[Len(stack)].includes = IncludeFilesOf(stack'[Len(stack)].settings)]_vars

\* the files the _files value of a document names
FilesListed(doc) ==
    IF HasKey(doc, "score.init", "_files")
    THEN {Abspath(l) : l \in Range(Get(doc, "score.init", "_files").lines) \ {""}}
    ELSE {}

\* the file given to parse, its bases and their bases, and its includes
Contributors ==
    Reached(fs, 3) \cup {Abspath(i) : i \in Range(fs["/a"].own["score.init"]["include"].lines)}

\* C17: the _files value of the document parse returns names the file given
\* to parse, every file it is based on directly or through other files, and
\* every file it includes.
C17_FilesBookkeeping ==
    (pstate = "done" /\ precurse) => Contributors \subseteq FilesListed(presult)

\* the file given to parse has no based_on and no include
PlainFile ==
    /\ ~HasKey(fs[Abspath(pfile)], "score.init", "based_on")
    /\ ~HasKey(fs[Abspath(pfile)], "score.init", "include")

-----------------------------------------------------------------------------
(* config parser: two parse calls at a time *)

\* the locals of a parse call that has not started
NewCall(file, recurse) ==
    [file |-> file, recurse |-> recurse, stack |-> <<>>, visited |-> <<>>, result |-> EmptyDoc, state |-> "call"]

\* One step of a parse call with the locals c, as the actions parse,
\* parse_bases_loop, parse_bases_merge, parse_includes_loop and parse_return
\* take it: "return _parse(file, [], recurse)" starts on a new, empty list.
CallStep(c) ==
    LET top == c.stack[Len(c.stack)]
        settop(fr) == [c.stack EXCEPT ![Len(c.stack)] = fr]
    IN IF c.state = "call"
       THEN IF c.recurse
            THEN [c EXCEPT !.stack = <<EnterFrame(c.file, <<>>)>>, !.visited = <<Abspath(c.file)>>, !.state = "run"]
            ELSE [c EXCEPT !.result = ReadFile(c.file), !.state = "done"]
       ELSE IF c.state # "run" THEN c
       ELSE IF top.pc = "bases" /\ top.todo # <<>>
       THEN LET base == ResolveBase(Head(top.todo))
            IN IF base \in Range(c.visited) THEN [c EXCEPT !.state = "loop_error"]
               ELSE IF Len(c.stack) >= MaxDepth THEN [c EXCEPT !.state = "recursion_error"]
               ELSE [c EXCEPT !.stack = Append(settop([top EXCEPT !.files = Append(@, base), !.todo = Tail(@)]),
                                               EnterFrame(base, c.visited)),
                              !.visited = Append(@, Abspath(base))]
       ELSE IF top.pc = "bases"
       THEN LET out == ApplyAdjustments(MergeSettings(top.bases), top.adjustments)
            IN IF out.error THEN [c EXCEPT !.state = "config_error"]
               ELSE [c EXCEPT !.stack = settop([top EXCEPT !.settings = out.doc, !.pc = "includes"])]
       ELSE IF top.includes # <<>>
       THEN LET include_file == Head(top.includes)
                include == ReadFile(include_file)
                out == ApplyAdjustments(Accumulated(top), include)
            IN IF BasedOn(include) # <<>> \/ out.error THEN [c EXCEPT !.state = "config_error"]
               ELSE [c EXCEPT !.stack = settop([top EXCEPT !.settings = out.doc,
                                                            !.files = Append(@, include_file),
                                                            !.includes = Tail(@)])]
       ELSE LET doc == RecordFiles(top.settings, top.files)
                rest == SubSeq(c.stack, 1, Len(c.stack) - 1)
            IN IF rest = <<>>
               THEN [c EXCEPT !.visited = SubSeq(@, 1, Len(@) - 1), !.result = doc, !.state = "done", !.stack = rest]
               ELSE [c EXCEPT !.visited = SubSeq(@, 1, Len(@) - 1),
                              !.stack = [rest EXCEPT ![Len(rest)].bases = Append(@, doc)]]

\* the locals of the one call of the specification SpecParse
ParseContext ==
    [file |-> pfile, recurse |-> precurse, stack |-> stack, visited |-> visited, result |-> presult, state |-> pstate]

\* every step of SpecParse is the step CallStep describes
CallStepIsParseNext == [][ParseContext' = CallStep(ParseContext)]_vars

\* a parse call run to its end with nothing else going on
RECURSIVE RunAlone(_)
RunAlone(c) == IF c.state \in {"call", "run"} THEN RunAlone(CallStep(c)) ELSE c

\* Two trees: /a is plain, based on /b or on itself, and may include /i1;
\* /b is plain or based on /a or /c; /c is plain or based on /d, /d plain or
\* based on /c.
TwoCallFiles ==
    {[x \in DiskFiles |->
        CASE x = "/a" -> FileText(la, inca, Lit(<<"a">>))
          [] x = "/b" -> FileText(lb, NoList, Lit(<<"b">>))
          [] x = "/c" -> FileText(lc, NoList, Lit(<<"c">>))
          [] x = "/d" -> FileText(ld, NoList, Lit(<<"d">>))
          [] x = "/i1" -> PlainText("i1")
          [] x = "/i2" -> PlainText("i2")] :
     la \in {NoList, DeclaredList(<<"b">>), DeclaredList(<<"a">>)},
     inca \in {NoList, DeclaredList(<<"i1">>)},
     lb \in {NoList, DeclaredList(<<"a">>), DeclaredList(<<"c">>)},
     lc \in {NoList, DeclaredList(<<"d">>)},
     ld \in {NoList, DeclaredList(<<"c">>)}}

CallsOff ==
    /\ calls = <<>>
    /\ overlapped = FALSE

\* two threads call parse, the first on /a, the second on /a, /b or /c
CallsInit ==
    /\ fs \in TwoCallFiles
    /\ pfile = ""
    /\ precurse = FALSE
    /\ stack = <<>>
    /\ visited = <<>>
    /\ presult = EmptyDoc
    /\ pstate = "off"
    /\ \E f \in {"a", "b", "c"} : calls = <<NewCall("a", TRUE), NewCall(f, TRUE)>>
    /\ overlapped = FALSE

\* mutant: visited is one list of the module, which every call works on
ModuleVisited(cs, i, new) == [j \in DOMAIN cs |-> IF j = i THEN new ELSE [cs[j] EXCEPT !.visited = new.visited]]

\* the list visited is made by the call itself (line 159) and handed down
\* its own _parse calls only: a step of call i changes the locals of call i
OwnVisited(cs, i, new) == [cs EXCEPT ![i] = new]

\* call i goes on by one step while the other call is where it is
call_step(i) ==
    /\ calls # <<>>
    /\ calls[i].state \in {"call", "run"}
    /\ calls' = OwnVisited(calls, i, CallStep(calls[i]))
    /\ overlapped' = (overlapped \/ calls[3 - i].state = "run")
    /\ UNCHANGED <<solverVars, diffVars, sortVars, initVars, replaceVars, adjustVars, mergeVars, parseVars>>

CallsNext == \E i \in {1, 2} : call_step(i)

\* C21: of two parse calls that run at the same time, each has in its
\* visited list the files of its own active _parse calls and nothing else,
\* and each ends as it ends when it runs alone: with the same document, or
\* with the same error, a loop error only when its own chain has a loop.
C21_CallsIndependent ==
    \A i \in DOMAIN calls :
        /\ calls[i].visited = [k \in 1..Len(calls[i].stack) |-> Abspath(calls[i].stack[k].file)]
        /\ calls[i].state \notin {"call", "run"} =>
              /\ calls[i].state = RunAlone(NewCall(calls[i].file, calls[i].recurse)).state
              /\ calls[i].result = RunAlone(NewCall(calls[i].file, calls[i].recurse)).result

\* /a is based on /b; parse('a') and parse('b') ran at the same time, both
\* had /b in their lists, and both returned
C21_Witness ==
    /\ calls # <<>>
    /\ overlapped
    /\ BasedOn(fs["/a"]) = <<"b">>
    /\ calls[2].file = "b"
    /\ calls[1].state = "done"
    /\ calls[2].state = "done"
    /\ calls[1].result.own["s1"]["k1"] = Lit(<<"a">>)
    /\ calls[2].result.own["s1"]["k1"] = Lit(<<"b">>)

-----------------------------------------------------------------------------
Init == SolverInit /\ DiffOff /\ SortOff /\ ReplaceOff /\ AdjustOff /\ MergeOff /\ ParseOff /\ CallsOff

Next ==
    \/ \E f \in Nodes, t \in Nodes \cup {None} : add_dependency(f, t)
    \/ \E f \in Nodes, t \in Nodes : remove_dependency(f, t)
    \/ solve

Spec == Init /\ [][Next]_vars

InitDiff == DiffInit /\ SolverInit /\ SortOff /\ ReplaceOff /\ AdjustOff /\ MergeOff /\ ParseOff /\ CallsOff

SpecDiff == InitDiff /\ [][DiffNext]_vars

InitSort == SortInit /\ SolverInit /\ DiffOff /\ ReplaceOff /\ AdjustOff /\ MergeOff /\ ParseOff /\ CallsOff

SpecSort == InitSort /\ [][SortNext]_vars

InitPrune == PruneInit /\ SolverInit /\ DiffOff /\ ReplaceOff /\ AdjustOff /\ MergeOff /\ ParseOff /\ CallsOff

SpecPrune == InitPrune /\ [][PruneNext]_vars

InitFinalize == FinalizeInitCall /\ SolverInit /\ DiffOff /\ ReplaceOff /\ AdjustOff /\ MergeOff /\ ParseOff /\ CallsOff

SpecFinalize == InitFinalize /\ [][InitNext]_vars

InitInit == InitCall /\ SolverInit /\ DiffOff /\ ReplaceOff /\ AdjustOff /\ MergeOff /\ ParseOff /\ CallsOff

SpecInit == InitInit /\ [][InitNext]_vars

InitReplace == ReplaceInit /\ SolverInit /\ DiffOff /\ SortOff /\ AdjustOff /\ MergeOff /\ ParseOff /\ CallsOff

SpecReplace == InitReplace /\ [][ReplaceNext]_vars

InitAdjust == AdjustInit /\ SolverInit /\ DiffOff /\ SortOff /\ ReplaceOff /\ MergeOff /\ ParseOff /\ CallsOff

SpecAdjust == InitAdjust /\ [][AdjustNext]_vars

InitMerge == MergeInit /\ SolverInit /\ DiffOff /\ SortOff /\ ReplaceOff /\ AdjustOff /\ ParseOff /\ CallsOff

SpecMerge == InitMerge /\ [][MergeNext]_vars

InitParse == ParseInit /\ SolverInit /\ DiffOff /\ SortOff /\ ReplaceOff /\ AdjustOff /\ MergeOff /\ CallsOff

SpecParse == InitParse /\ [][ParseNext]_vars

InitCalls == CallsInit /\ SolverInit /\ DiffOff /\ SortOff /\ ReplaceOff /\ AdjustOff /\ MergeOff

SpecCalls == InitCalls /\ [][CallsNext]_vars

====
